---- MODULE Spec2Model ----
(***************************************************************************)
(* Model of the Bitbucket MCP gateway: the Worker entry point, the         *)
(* per-request server/client construction, the client's HTTP request      *)
(* helpers, and the tool-handler boundary with formatResponse/formatError. *)
(***************************************************************************)
EXTENDS FiniteSets, Integers, Sequences, TLC

VARIABLES
    pc,           \* per inbound slot: position of the request / invocation
    inbound,      \* the inbound HTTP request (NoRequest when the client is built directly)
    httpResponse, \* the Response the Worker's fetch handler returned itself
    server,       \* the McpServer built for the slot, with the client its handlers captured
    validated,    \* validateCredentials has returned normally for this slot
    invocation,   \* the tool call being handled: tool name and format argument
    outbound,     \* sequence of outbound fetch calls issued for the invocation
    upstream,     \* how the outbound fetch settled
    toolResponse, \* the ToolResponse returned by the handler
    escaped,      \* an exception left the handler towards the MCP transport
    argument,     \* a library function applied on its own: the function and its arguments
    outcome       \* what that application returned or threw

vars == <<pc, inbound, httpResponse, server, validated, invocation, outbound,
          upstream, toolResponse, escaped, argument, outcome>>

-----------------------------------------------------------------------------
(* JavaScript / JSON values.  Every value is a tagged record so that values *)
(* of different JavaScript types can be compared.                          *)

Undefined == [t |-> "undefined"]
Null == [t |-> "null"]
NaN == [t |-> "NaN"]
Str(s) == [t |-> "string", s |-> s]
Num(n) == [t |-> "number", n |-> n]
Obj(f) == [t |-> "object", f |-> f]
Arr(l) == [t |-> "array", l |-> l]
Bool(b) == [t |-> "boolean", b |-> b]

\* JavaScript truthiness, as used by `||`, `?:` and `if`.
Truthy(v) ==
    ~(\/ v.t \in {"undefined", "null", "NaN"}
      \/ v = Str("") \/ v = [t |-> "string", chars |-> <<>>]
      \/ v = Num(0) \/ v = Bool(FALSE))

\* a || b
OrElse(a, b) == IF Truthy(a) THEN a ELSE b

\* v.k for a non-nullish v (a missing property reads as undefined)
Get(v, k) == IF v.t = "object" /\ k \in DOMAIN v.f THEN v.f[k] ELSE Undefined

\* v?.k
GetOpt(v, k) == IF v.t \in {"undefined", "null"} THEN Undefined ELSE Get(v, k)

\* an object whose properties were created in the order of pairs, each pair
\* <<key, value>>: { k1: v1, k2: v2, ... }
Object(pairs) ==
    [t |-> "object",
     f |-> [k \in {pairs[i][1] : i \in DOMAIN pairs} |->
               pairs[CHOOSE i \in DOMAIN pairs : pairs[i][1] = k][2]],
     keys |-> [i \in DOMAIN pairs |-> pairs[i][1]]]

\* an object read from JSON text: a property without a value is absent
JsonObject(pairs) == Object(SelectSeq(pairs, LAMBDA pair : pair[2].t # "undefined"))

\* some enumeration of a finite set
RECURSIVE SetToSeq(_)
SetToSeq(S) ==
    IF S = {} THEN <<>> ELSE LET x == CHOOSE x \in S : TRUE IN <<x>> \o SetToSeq(S \ {x})

\* Object.keys(v): the own property names in creation order
Object_keys(v) ==
    IF v.t = "object" THEN (IF "keys" \in DOMAIN v THEN v.keys ELSE SetToSeq(DOMAIN v.f))
    ELSE IF v.t = "array" THEN [i \in DOMAIN v.l |-> ToString(i - 1)]
    ELSE <<>>

\* the elements of a sequence of strings joined by a separator: array.join(sep)
Joined(strings, sep) == [t |-> "string", joined |-> strings, sep |-> sep]

\* a template literal, given by its pieces in order
Template(parts) == [t |-> "string", parts |-> parts]

\* String(v) and `${v}`
RECURSIVE String(_)
String(v) ==
    CASE v.t = "string" -> v
      [] v.t = "number" -> Str(ToString(v.n))
      [] v.t = "boolean" -> Str(IF v.b THEN "true" ELSE "false")
      [] v.t = "object" -> Str("[object Object]")
      [] v.t = "array" ->
            Joined([i \in DOMAIN v.l |->
                       IF v.l[i].t \in {"undefined", "null"} THEN Str("")
                       ELSE String(v.l[i])], ",")
      [] OTHER -> Str(v.t)

-----------------------------------------------------------------------------
(* Bounds and input domains                                                *)

Slots == {1, 2}

\* longest Retry-After header value the upstream sends, in characters
MaxRetryAfterLen == 2

API_BASE_URL == "https://api.bitbucket.org/2.0"

\* header values a tenant may send on slot r
UsernameOf(r) == Str(<<"alice", "bob">>[r])
AppPasswordOf(r) == Str(<<"app-password-1", "app-password-2">>[r])
AccessTokenOf(r) == Str(<<"access-token-1", "access-token-2">>[r])
BaseUrlOf(r) == Str(<<"https://bb-1.example/2.0", "https://bb-2.example/2.0">>[r])

\* headers.get(name): null when the header is absent, else its string value
HeaderValues(v) == {Null, Str(""), v}

Headers(r) ==
    [username : HeaderValues(UsernameOf(r)),
     appPassword : HeaderValues(AppPasswordOf(r)),
     accessToken : HeaderValues(AccessTokenOf(r)),
     baseUrl : {Null, BaseUrlOf(r)}]

Paths == {"/health", "/mcp", "/sse", "/"}
Methods == {"GET", "POST"}

Requests(r) == [path : Paths, method : Methods, headers : Headers(r)]

NoRequest == [path |-> "", method |-> ""]
NoResponse == [status |-> 0]
NoServer == [constructed |-> FALSE]
NoInvocation == [tool |-> ""]
NoUpstream == [kind |-> "none"]
NoToolResponse == [content |-> <<>>]
NoArgument == [fn |-> ""]
NoOutcome == [applied |-> FALSE]

-----------------------------------------------------------------------------
(* Tenant credentials: src/types/env.ts                                    *)

parseTenantCredentials(req) ==
    [username |-> OrElse(req.headers.username, Undefined),
     appPassword |-> OrElse(req.headers.appPassword, Undefined),
     accessToken |-> OrElse(req.headers.accessToken, Undefined),
     baseUrl |-> OrElse(req.headers.baseUrl, Undefined)]

\* validateCredentials accepting a username without an app password
validateCredentialsEither(credentials) ==
    LET hasBasicAuth == Truthy(credentials.username) \/ Truthy(credentials.appPassword)
        hasOAuth == Truthy(credentials.accessToken)
    IN  ~(~hasBasicAuth /\ ~hasOAuth)

\* TRUE when validateCredentials returns normally, FALSE when it throws
validateCredentials(credentials) ==
    LET hasBasicAuth == Truthy(credentials.username) /\ Truthy(credentials.appPassword)
        hasOAuth == Truthy(credentials.accessToken)
    IN  ~(~hasBasicAuth /\ ~hasOAuth)

\* TenantCredentials objects a direct caller of createBitbucketClient may pass
TenantCredentials(r) ==
    [username : {Undefined, UsernameOf(r)},
     appPassword : {Undefined, AppPasswordOf(r)},
     accessToken : {Undefined, AccessTokenOf(r)},
     baseUrl : {Undefined, BaseUrlOf(r)}]


-----------------------------------------------------------------------------
(* Error classes of utils/errors.ts.  An Error object is a record with its  *)
(* class name, the message handed to the constructor, and the extra        *)
(* constructor arguments.                                                  *)

AuthenticationError(message) ==
    [cls |-> "AuthenticationError", message |-> message,
     statusCode |-> Undefined, retryAfter |-> Undefined]

RateLimitError(message, retryAfter) ==
    [cls |-> "RateLimitError", message |-> message,
     statusCode |-> Undefined, retryAfter |-> retryAfter]

BitbucketApiError(message, statusCode) ==
    [cls |-> "BitbucketApiError", message |-> message,
     statusCode |-> statusCode, retryAfter |-> Undefined]

\* errors raised by the runtime: a rejected fetch, a failed JSON parse,
\* a property read on null/undefined
RuntimeError(cls, message) ==
    [cls |-> cls, message |-> message,
     statusCode |-> Undefined, retryAfter |-> Undefined]

\* error instanceof BitbucketApiError
instanceofBitbucketApiError(error) ==
    error.cls \in {"BitbucketApiError", "AuthenticationError", "RateLimitError"}

\* error.retryable
retryable(error) == error.cls = "RateLimitError"

\* formatErrorForLogging(error): the structured detail of the failure envelope
formatErrorForLogging(error) ==
    Obj([kind |-> Str(error.cls), message |-> error.message,
         statusCode |-> error.statusCode, retryAfter |-> error.retryAfter])

AuthFailedMessage == Str("Authentication failed. Check your Bitbucket credentials.")
NoCredentialsMessage ==
    Str("No credentials provided. Include X-Bitbucket-Username + X-Bitbucket-App-Password headers, or X-Bitbucket-Access-Token header.")
RateLimitMessage == Str("Rate limit exceeded")

\* `API error: ${response.status}`
ApiErrorMessage(status) == [t |-> "string", template |-> "API error: ", status |-> status]

-----------------------------------------------------------------------------
(* Number.parseInt(string, 10) over a string given as its characters       *)

Digits == {"0", "1", "2", "3", "4", "5", "6", "7", "8", "9"}

DigitValue(c) ==
    CASE c = "0" -> 0 [] c = "1" -> 1 [] c = "2" -> 2 [] c = "3" -> 3
      [] c = "4" -> 4 [] c = "5" -> 5 [] c = "6" -> 6 [] c = "7" -> 7
      [] c = "8" -> 8 [] c = "9" -> 9

RECURSIVE SkipWhitespace(_)
SkipWhitespace(cs) ==
    IF cs # <<>> /\ Head(cs) = " " THEN SkipWhitespace(Tail(cs)) ELSE cs

\* value of the longest prefix of digits of cs, continuing from acc
RECURSIVE DigitPrefix(_, _)
DigitPrefix(cs, acc) ==
    IF cs # <<>> /\ Head(cs) \in Digits
    THEN DigitPrefix(Tail(cs), 10 * acc + DigitValue(Head(cs)))
    ELSE acc

parseInt(cs) ==
    LET trimmed == SkipWhitespace(cs)
        signed == trimmed # <<>> /\ Head(trimmed) \in {"-", "+"}
        body == IF signed THEN Tail(trimmed) ELSE trimmed
        magnitude == DigitPrefix(body, 0)
    IN  IF body = <<>> \/ Head(body) \notin Digits
        THEN NaN
        ELSE Num(IF signed /\ Head(trimmed) = "-" THEN 0 - magnitude ELSE magnitude)

\* a header value given by its characters
StrC(cs) == [t |-> "string", chars |-> cs]

\* truthiness of a header value: null and "" are falsy
TruthyHeader(h) == h.t = "string" /\ h.chars # <<>>

-----------------------------------------------------------------------------
(* BitbucketClientImpl: client.ts                                          *)

createBitbucketClient(credentials) ==
    [constructed |-> TRUE,
     credentials |-> credentials,
     baseUrl |-> OrElse(credentials.baseUrl, Str(API_BASE_URL))]

\* btoa(`${username}:${appPassword}`)
btoa(username, appPassword) == <<"base64", username.s, ":", appPassword.s>>

\* a getAuthHeaders that tries the username and app password first
getAuthHeadersBasicFirst(cl) ==
    IF Truthy(cl.credentials.username) /\ Truthy(cl.credentials.appPassword)
    THEN [threw |-> FALSE,
          Authorization |-> [scheme |-> "Basic",
                             value |-> btoa(cl.credentials.username,
                                            cl.credentials.appPassword)]]
    ELSE IF Truthy(cl.credentials.accessToken)
    THEN [threw |-> FALSE,
          Authorization |-> [scheme |-> "Bearer",
                             value |-> <<cl.credentials.accessToken.s>>]]
    ELSE [threw |-> TRUE, error |-> AuthenticationError(NoCredentialsMessage)]

\* getAuthHeaders(): the Authorization header, or the error it throws
getAuthHeaders(cl) ==
    IF Truthy(cl.credentials.accessToken)
    THEN [threw |-> FALSE,
          Authorization |-> [scheme |-> "Bearer",
                             value |-> <<cl.credentials.accessToken.s>>]]
    ELSE IF Truthy(cl.credentials.username) /\ Truthy(cl.credentials.appPassword)
    THEN [threw |-> FALSE,
          Authorization |-> [scheme |-> "Basic",
                             value |-> btoa(cl.credentials.username,
                                            cl.credentials.appPassword)]]
    ELSE [threw |-> TRUE, error |-> AuthenticationError(NoCredentialsMessage)]

\* the fetch(url, {headers}) call issued by request()/requestRaw()
FetchCall(cl) ==
    [url |-> cl.baseUrl, Authorization |-> getAuthHeaders(cl).Authorization]

ok(response) == response.status >= 200 /\ response.status <= 299

Returned(value) == [threw |-> FALSE, value |-> value]
Thrown(error) == [threw |-> TRUE, error |-> error]

\* the raw body text as a JavaScript string: await response.text()
RawText(body) == [t |-> "string", raw |-> body]

\* JSON.parse(text) / response.json(): the parsed value, or a SyntaxError
JSONparse(body) ==
    IF body.parses THEN Returned(body.json)
    ELSE Thrown(RuntimeError("SyntaxError", Str("Unexpected token in JSON")))

\* the 401/403 branch naming the account it failed for
authenticationFailedFor(cl) ==
    AuthenticationError([t |-> "string",
                         parts |-> <<Str("Authentication failed for "),
                                     OrElse(cl.credentials.accessToken,
                                            cl.credentials.username)>>])

\* the 401/403 branch of request(): the error it throws
authenticationFailed(cl) == AuthenticationError(AuthFailedMessage)

\* request() on client cl: what the promise settles to once fetch has settled
request(cl, settled) ==
    IF settled.kind = "rejected"
    THEN Thrown(RuntimeError("TypeError", settled.reason))
    ELSE LET response == settled IN
         IF response.status = 429
         THEN LET retryAfter == response.retryAfter IN
              Thrown(RateLimitError(RateLimitMessage,
                                    IF TruthyHeader(retryAfter)
                                    THEN parseInt(retryAfter.chars)
                                    ELSE Num(60)))
         ELSE IF response.status = 401 \/ response.status = 403
         THEN Thrown(authenticationFailed(cl))
         ELSE IF ~ok(response)
         THEN LET default == ApiErrorMessage(response.status)
                  parsed == JSONparse(response.body)
                  errorJson == parsed.value
                  message ==
                      IF parsed.threw \/ errorJson.t \in {"null", "undefined"}
                      THEN default
                      ELSE OrElse(GetOpt(Get(errorJson, "error"), "message"),
                           OrElse(Get(errorJson, "message"),
                           OrElse(Get(errorJson, "error"), default)))
              IN  Thrown(BitbucketApiError(message, Num(response.status)))
         ELSE IF response.status = 204
         THEN Returned(Undefined)
         ELSE IF response.contentType \in {"text/plain", "text/x-diff"}
         THEN Returned(RawText(response.body))
         ELSE JSONparse(response.body)

\* requestRaw() on client cl: what the promise settles to once fetch has settled
requestRaw(cl, settled) ==
    IF settled.kind = "rejected"
    THEN Thrown(RuntimeError("TypeError", settled.reason))
    ELSE LET response == settled IN
         IF ~ok(response)
         THEN Thrown(BitbucketApiError(ApiErrorMessage(response.status),
                                       Num(response.status)))
         ELSE Returned(RawText(response.body))


\* a request helper that fetches again after a 429
refetchOn429(settled) == settled.kind = "response" /\ settled.status = 429

\* whether request()/requestRaw() issues another fetch after the first one
\* settled: both have a single `await fetch` and no loop
refetch(settled) == FALSE

-----------------------------------------------------------------------------
(* utils/pagination.ts                                                     *)

PAGINATION_DEFAULTS == [pagelen |-> 20, maxPagelen |-> 100]

Min(a, b) == IF a <= b THEN a ELSE b

\* normalizePaginationParams(params, maxPagelen)
normalizePaginationParams(params, maxPagelen) ==
    Object(<< <<"pagelen", Num(Min(OrElse(GetOpt(params, "pagelen"),
                                          Num(PAGINATION_DEFAULTS.pagelen)).n,
                                   maxPagelen))>>,
              <<"page", GetOpt(params, "page")>>,
              <<"q", GetOpt(params, "q")>>,
              <<"sort", GetOpt(params, "sort")>> >>)

\* a conversion that counts the page size the upstream announces
convertPaginatedResponseCountingPagelen(response) ==
    Returned(Object(<< <<"items", Get(response, "values")>>,
                       <<"count", Get(response, "pagelen")>>,
                       <<"total", Get(response, "size")>>,
                       <<"hasMore", Bool(Truthy(Get(response, "next")))>>,
                       <<"nextCursor", Get(response, "next")>> >>))

convertPaginatedResponse(response) ==
    IF response.t \in {"undefined", "null"}
       \/ Get(response, "values").t \in {"undefined", "null"}
    THEN Thrown(RuntimeError("TypeError", Str("Cannot read properties of undefined")))
    ELSE Returned(Object(<< <<"items", Get(response, "values")>>,
                            <<"count", Num(Len(Get(response, "values").l))>>,
                            <<"total", Get(response, "size")>>,
                            <<"hasMore", Bool(Truthy(Get(response, "next")))>>,
                            <<"nextCursor", Get(response, "next")>> >>))

\* what encodeURIComponent writes for an ASCII character: its %XX escape,
\* or the character itself (letters, digits and - _ . ! ~ * ' ( ))
Escape(c) ==
    CASE c = " " -> <<"%", "2", "0">> [] c = "\"" -> <<"%", "2", "2">>
      [] c = "#" -> <<"%", "2", "3">> [] c = "$" -> <<"%", "2", "4">>
      [] c = "%" -> <<"%", "2", "5">> [] c = "&" -> <<"%", "2", "6">>
      [] c = "+" -> <<"%", "2", "B">> [] c = "," -> <<"%", "2", "C">>
      [] c = "/" -> <<"%", "2", "F">> [] c = ":" -> <<"%", "3", "A">>
      [] c = ";" -> <<"%", "3", "B">> [] c = "<" -> <<"%", "3", "C">>
      [] c = "=" -> <<"%", "3", "D">> [] c = ">" -> <<"%", "3", "E">>
      [] c = "?" -> <<"%", "3", "F">> [] c = "@" -> <<"%", "4", "0">>
      [] OTHER -> <<c>>

RECURSIVE EscapeAll(_)
EscapeAll(cs) ==
    IF cs = <<>> THEN <<>>
    ELSE Escape(Head(cs)) \o EscapeAll(Tail(cs))

\* an encoder that leaves every character as it is
encodeURIComponentVerbatim(v) == v

\* encodeURIComponent(v) of a string given by its characters
encodeURIComponent(v) == [t |-> "string", chars |-> EscapeAll(v.chars)]

buildPaginationQuery(params) ==
    IF ~Truthy(params) THEN Str("")
    ELSE LET queryParts ==
                 (IF Truthy(Get(params, "pagelen"))
                  THEN <<Template(<<Str("pagelen"), Str("="), String(Get(params, "pagelen"))>>)>>
                  ELSE <<>>)
                 \o (IF Truthy(Get(params, "page"))
                     THEN <<Template(<<Str("page"), Str("="), String(Get(params, "page"))>>)>>
                     ELSE <<>>)
                 \o (IF Truthy(Get(params, "q"))
                     THEN <<Template(<<Str("q"), Str("="), encodeURIComponent(Get(params, "q"))>>)>>
                     ELSE <<>>)
                 \o (IF Truthy(Get(params, "sort"))
                     THEN <<Template(<<Str("sort"), Str("="), encodeURIComponent(Get(params, "sort"))>>)>>
                     ELSE <<>>)
         IN  IF Len(queryParts) > 0
             THEN Template(<<Str("?"), Joined(queryParts, "&")>>)
             ELSE Str("")

emptyPaginatedResponse ==
    Object(<< <<"items", Arr(<<>>)>>, <<"count", Num(0)>>, <<"hasMore", Bool(FALSE)>> >>)

-----------------------------------------------------------------------------
(* utils/formatters.ts                                                     *)

\* the JSON value a JavaScript value is written as: properties whose value
\* is undefined are left out, undefined array elements and NaN become null
RECURSIVE Serialized(_)
Serialized(v) ==
    IF v.t = "object"
    THEN LET defined == {k \in DOMAIN v.f : v.f[k].t # "undefined"}
             f == [k \in defined |-> Serialized(v.f[k])]
         IN  IF "keys" \in DOMAIN v
             THEN [t |-> "object", f |-> f,
                   keys |-> SelectSeq(v.keys, LAMBDA k : k \in defined)]
             ELSE Obj(f)
    ELSE IF v.t = "array"
    THEN Arr([i \in DOMAIN v.l |->
                 IF v.l[i].t = "undefined" THEN Null ELSE Serialized(v.l[i])])
    ELSE IF v.t = "NaN" THEN Null
    ELSE v

\* a serializer that writes a property whose value is undefined as null
JSONstringifyUndefinedAsNull(value) ==
    [t |-> "string",
     json |-> IF value.t = "object"
              THEN [value EXCEPT !.f = [k \in DOMAIN value.f |->
                                          IF value.f[k].t = "undefined" THEN Null
                                          ELSE value.f[k]]]
              ELSE value]

\* JSON.stringify(value, null, 2): undefined for undefined, else the JSON
\* text, given by the JSON value it denotes
JSONstringify(value) ==
    IF value.t = "undefined" THEN Undefined
    ELSE [t |-> "string", json |-> Serialized(value)]

TextContent(text) == <<[type |-> "text", text |-> text]>>

isPaginatedResponse(data) ==
    data.t = "object" /\ "items" \in DOMAIN data.f /\ data.f.items.t = "array"

Nullish(v) == v.t \in {"undefined", "null"}

TypeError == RuntimeError("TypeError", Str("Cannot read properties of undefined"))

\* lines.join('\n'): a text given by its lines
Markdown(lines) == [t |-> "string", lines |-> lines]

\* `| ${cells.join(' | ')} |`: a table line given by its cells
Row(cells) == [t |-> "string", cells |-> cells]

\* '|---|---|': the line under the header, with one '---' per column
Separator(columns) == [t |-> "string", dashes |-> columns]

\* value.substring(0, length)
substring(value, length) ==
    IF "chars" \in DOMAIN value
    THEN [t |-> "string", chars |-> SubSeq(value.chars, 1, Min(length, Len(value.chars)))]
    ELSE [t |-> "string", substringOf |-> value, length |-> length]

\* value.split('\n')[0]: the characters before the first line break
RECURSIVE FirstLine(_)
FirstLine(cs) ==
    IF cs = <<>> \/ Head(cs) = "\n" THEN <<>> ELSE <<Head(cs)>> \o FirstLine(Tail(cs))

\* new Date(value).toLocaleDateString()
toLocaleDateString(value) == [t |-> "string", localeDateOf |-> value]

\* a table of one header line, one separator line and one line per item,
\* given the cells of every line; a TypeError when reading some item throws
Table(header, columns, throws, cells) ==
    IF \E i \in DOMAIN throws : throws[i]
    THEN Thrown(TypeError)
    ELSE Returned(Markdown(<<Row(header), Separator(columns)>>
                           \o [i \in DOMAIN cells |-> Row(cells[i])]))

formatWorkspacesTable(workspaces) ==
    LET workspaceCells(ws) ==
            <<String(Get(ws, "slug")), String(Get(ws, "name")), String(Get(ws, "uuid"))>>
    IN  Table(<<Str("Slug"), Str("Name"), Str("UUID")>>, 3,
              [i \in DOMAIN workspaces |-> Nullish(workspaces[i])],
              [i \in DOMAIN workspaces |-> workspaceCells(workspaces[i])])

formatRepositoriesTable(repos) ==
    LET repositoryCells(repo) ==
            <<String(Get(repo, "name")), String(Get(repo, "full_name")),
              IF Truthy(Get(repo, "is_private")) THEN Str("Yes") ELSE Str("No"),
              String(OrElse(Get(repo, "language"), Str("-"))),
              IF Truthy(Get(repo, "updated_on"))
              THEN toLocaleDateString(Get(repo, "updated_on")) ELSE Str("-")>>
    IN  Table(<<Str("Name"), Str("Full Name"), Str("Private"), Str("Language"), Str("Updated")>>, 5,
              [i \in DOMAIN repos |-> Nullish(repos[i])],
              [i \in DOMAIN repos |-> repositoryCells(repos[i])])

formatBranchesTable(branches) ==
    LET branchThrows(branch) ==
            \/ Nullish(branch)
            \/ LET hash == GetOpt(Get(branch, "target"), "hash") IN Truthy(hash) /\ hash.t # "string"
        branchCells(branch) ==
            LET hash == GetOpt(Get(branch, "target"), "hash") IN
            <<String(Get(branch, "name")), IF Truthy(hash) THEN substring(hash, 7) ELSE Str("-")>>
    IN  Table(<<Str("Name"), Str("Target Commit")>>, 2,
              [i \in DOMAIN branches |-> branchThrows(branches[i])],
              [i \in DOMAIN branches |-> branchCells(branches[i])])

formatCommitsTable(commits) ==
    LET firstLine(value) ==
            IF "chars" \in DOMAIN value
            THEN [t |-> "string", chars |-> FirstLine(value.chars)]
            ELSE [t |-> "string", firstLineOf |-> value]
        commitThrows(commit) ==
            \/ Nullish(commit)
            \/ Get(commit, "hash").t # "string"
            \/ Truthy(Get(commit, "message")) /\ Get(commit, "message").t # "string"
        commitCells(commit) ==
            LET author == Get(commit, "author") IN
            <<substring(Get(commit, "hash"), 7),
              substring(firstLine(OrElse(Get(commit, "message"), Str("-"))), 50),
              String(OrElse(GetOpt(author, "raw"),
                     OrElse(GetOpt(GetOpt(author, "user"), "display_name"), Str("-")))),
              IF Truthy(Get(commit, "date")) THEN toLocaleDateString(Get(commit, "date")) ELSE Str("-")>>
    IN  Table(<<Str("Hash"), Str("Message"), Str("Author"), Str("Date")>>, 4,
              [i \in DOMAIN commits |-> commitThrows(commits[i])],
              [i \in DOMAIN commits |-> commitCells(commits[i])])

\* reading pr.source.branch.name or pr.destination.branch.name throws
pullRequestThrows(pr) ==
    \/ Nullish(pr)
    \/ Nullish(Get(pr, "source")) \/ Nullish(Get(Get(pr, "source"), "branch"))
    \/ Nullish(Get(pr, "destination")) \/ Nullish(Get(Get(pr, "destination"), "branch"))

\* the cells of the line of one pull request
pullRequestCells(pr) ==
    LET author == OrElse(GetOpt(Get(pr, "author"), "display_name"),
                  OrElse(GetOpt(Get(pr, "author"), "username"), Str("-")))
        branches ==
            Template(<<String(GetOpt(GetOpt(Get(pr, "source"), "branch"), "name")),
                       Str(" -> "),
                       String(GetOpt(GetOpt(Get(pr, "destination"), "branch"), "name"))>>)
    IN  <<Template(<<Str("#"), String(Get(pr, "id"))>>),
          String(Get(pr, "title")), String(Get(pr, "state")), String(author), branches>>

\* a pull-request table that lists the last pull request first
formatPullRequestsTableLastFirst(prs) ==
    Table(<<Str("ID"), Str("Title"), Str("State"), Str("Author"), Str("Source -> Dest")>>, 5,
          [i \in DOMAIN prs |-> pullRequestThrows(prs[i])],
          [i \in DOMAIN prs |-> pullRequestCells(prs[Len(prs) + 1 - i])])

formatPullRequestsTable(prs) ==
    Table(<<Str("ID"), Str("Title"), Str("State"), Str("Author"), Str("Source -> Dest")>>, 5,
          [i \in DOMAIN prs |-> pullRequestThrows(prs[i])],
          [i \in DOMAIN prs |-> pullRequestCells(prs[i])])

formatIssuesTable(issues) ==
    LET issueCells(issue) ==
            <<Template(<<Str("#"), String(Get(issue, "id"))>>),
              String(Get(issue, "title")), String(Get(issue, "state")),
              String(Get(issue, "priority")), String(Get(issue, "kind")),
              String(OrElse(GetOpt(Get(issue, "assignee"), "display_name"),
                     OrElse(GetOpt(Get(issue, "assignee"), "username"), Str("-"))))>>
    IN  Table(<<Str("ID"), Str("Title"), Str("State"), Str("Priority"), Str("Kind"),
                Str("Assignee")>>, 6,
              [i \in DOMAIN issues |-> Nullish(issues[i])],
              [i \in DOMAIN issues |-> issueCells(issues[i])])

formatPipelinesTable(pipelines) ==
    LET pipelineCells(pipeline) ==
            LET seconds == Get(pipeline, "duration_in_seconds") IN
            <<Template(<<Str("#"), String(Get(pipeline, "build_number"))>>),
              String(OrElse(GetOpt(Get(pipeline, "state"), "name"), Str("-"))),
              String(OrElse(GetOpt(Get(pipeline, "target"), "ref_name"), Str("-"))),
              IF ~Truthy(seconds) THEN Str("-")
              ELSE IF seconds.t = "number"
              THEN Template(<<String(Num(seconds.n \div 60)), Str("m "),
                              String(Num(seconds.n % 60)), Str("s")>>)
              ELSE Template(<<String(NaN), Str("m "), String(NaN), Str("s")>>),
              IF Truthy(Get(pipeline, "created_on"))
              THEN toLocaleDateString(Get(pipeline, "created_on")) ELSE Str("-")>>
    IN  Table(<<Str("Build #"), Str("State"), Str("Target"), Str("Duration"), Str("Created")>>, 5,
              [i \in DOMAIN pipelines |-> Nullish(pipelines[i])],
              [i \in DOMAIN pipelines |-> pipelineCells(pipelines[i])])

formatWebhooksTable(webhooks) ==
    LET webhookThrows(webhook) ==
            \/ Nullish(webhook)
            \/ ~Nullish(Get(webhook, "events")) /\ Get(webhook, "events").t # "array"
        webhookCells(webhook) ==
            LET events == Get(webhook, "events")
                joinedIsEmpty ==
                    \/ events.t # "array"
                    \/ events.l = <<>>
                    \/ Len(events.l) = 1 /\ (Nullish(events.l[1]) \/ ~Truthy(events.l[1]))
            IN  <<String(Get(webhook, "uuid")), String(Get(webhook, "url")),
                  IF Truthy(Get(webhook, "active")) THEN Str("Yes") ELSE Str("No"),
                  IF joinedIsEmpty THEN Str("-")
                  ELSE Joined([i \in DOMAIN events.l |->
                                  IF Nullish(events.l[i]) THEN Str("") ELSE String(events.l[i])],
                              ", ")>>
    IN  Table(<<Str("UUID"), Str("URL"), Str("Active"), Str("Events")>>, 4,
              [i \in DOMAIN webhooks |-> webhookThrows(webhooks[i])],
              [i \in DOMAIN webhooks |-> webhookCells(webhooks[i])])

formatCommentsTable(comments) ==
    LET commentThrows(comment) ==
            \/ Nullish(comment)
            \/ LET raw == GetOpt(Get(comment, "content"), "raw") IN Truthy(raw) /\ raw.t # "string"
        commentCells(comment) ==
            <<String(Get(comment, "id")),
              String(OrElse(GetOpt(Get(comment, "user"), "display_name"),
                     OrElse(GetOpt(Get(comment, "user"), "username"), Str("-")))),
              substring(OrElse(GetOpt(Get(comment, "content"), "raw"), Str("-")), 50),
              IF Truthy(Get(comment, "created_on"))
              THEN toLocaleDateString(Get(comment, "created_on")) ELSE Str("-")>>
    IN  Table(<<Str("ID"), Str("Author"), Str("Content"), Str("Created")>>, 4,
              [i \in DOMAIN comments |-> commentThrows(comments[i])],
              [i \in DOMAIN comments |-> commentCells(comments[i])])

\* a slice that keeps every key
firstKeysAll(keys) == keys

\* keys.slice(0, 5)
firstKeys(keys) == SubSeq(keys, 1, Min(5, Len(keys)))

\* formatGenericTable: Object.keys(items[0]).slice(0, 5), then record[k] of
\* every item
formatGenericTable(items) ==
    IF items = <<>> THEN Returned(Str("_No items_"))
    ELSE IF Nullish(items[1]) THEN Thrown(TypeError)
    ELSE LET keys == firstKeys(Object_keys(items[1]))
             values(record) ==
                 [j \in DOMAIN keys |->
                     IF Nullish(Get(record, keys[j])) THEN Str("-")
                     ELSE String(Get(record, keys[j]))]
         IN  Table([j \in DOMAIN keys |-> Str(keys[j])], Len(keys),
                   [i \in DOMAIN items |-> keys # <<>> /\ Nullish(items[i])],
                   [i \in DOMAIN items |-> values(items[i])])

\* str.charAt(0).toUpperCase() + str.slice(1), for the entity types in use
capitalize(str) ==
    CASE str = "workspaces" -> "Workspaces" [] str = "repositories" -> "Repositories"
      [] str = "branches" -> "Branches" [] str = "commits" -> "Commits"
      [] str = "pullrequests" -> "Pullrequests" [] str = "pull_requests" -> "Pull_requests"
      [] str = "issues" -> "Issues" [] str = "pipelines" -> "Pipelines"
      [] str = "webhooks" -> "Webhooks" [] str = "comments" -> "Comments"
      [] str = "tags" -> "Tags" [] str = "variables" -> "Variables"
      [] str = "workspace" -> "Workspace" [] str = "pullrequest" -> "Pullrequest"
      [] str = "repositorie" -> "Repositorie" [] str = "branche" -> "Branche"
      [] str = "commit" -> "Commit" [] str = "pull_request" -> "Pull_request"
      [] str = "issue" -> "Issue" [] str = "pipeline" -> "Pipeline"
      [] str = "webhook" -> "Webhook" [] str = "comment" -> "Comment"
      [] str = "tag" -> "Tag" [] str = "variable" -> "Variable"

\* entityType.replace(/s$/, ''), for the entity types in use
withoutFinalS(entityType) ==
    CASE entityType = "workspaces" -> "workspace" [] entityType = "repositories" -> "repositorie"
      [] entityType = "branches" -> "branche" [] entityType = "commits" -> "commit"
      [] entityType = "pullrequests" -> "pullrequest"
      [] entityType = "pull_requests" -> "pull_request"
      [] entityType = "issues" -> "issue" [] entityType = "pipelines" -> "pipeline"
      [] entityType = "webhooks" -> "webhook" [] entityType = "comments" -> "comment"
      [] entityType = "tags" -> "tag" [] entityType = "variables" -> "variable"
      [] OTHER -> entityType

\* formatKey(key), for the property names in use: '_' becomes ' ', a space
\* goes before every capital, the first character is upper-cased
formatKey(key) ==
    CASE key = "slug" -> "Slug" [] key = "name" -> "Name" [] key = "uuid" -> "Uuid"
      [] key = "id" -> "Id" [] key = "title" -> "Title" [] key = "state" -> "State"
      [] key = "author" -> "Author" [] key = "source" -> "Source"
      [] key = "destination" -> "Destination" [] key = "hash" -> "Hash"
      [] key = "message" -> "Message" [] key = "date" -> "Date" [] key = "type" -> "Type"
      [] key = "target" -> "Target" [] key = "links" -> "Links" [] key = "key" -> "Key"
      [] key = "secured" -> "Secured" [] key = "items" -> "Items" [] key = "count" -> "Count"
      [] key = "total" -> "Total" [] key = "hasMore" -> "Has More"
      [] key = "nextCursor" -> "Next Cursor" [] key = "display_name" -> "Display name"
      [] key = "username" -> "Username" [] key = "values" -> "Values"
      [] key = "next" -> "Next" [] key = "size" -> "Size" [] key = "pagelen" -> "Pagelen"
      [] key = "content" -> "Content" [] key = "user" -> "User"
      [] key = "created_on" -> "Created on" [] key = "raw" -> "Raw"

\* the switch of formatPaginatedAsMarkdown: the table of the entity type
formatItemsTable(items, entityType) ==
    CASE entityType = "workspaces" -> formatWorkspacesTable(items)
      [] entityType = "repositories" -> formatRepositoriesTable(items)
      [] entityType = "branches" -> formatBranchesTable(items)
      [] entityType = "commits" -> formatCommitsTable(items)
      [] entityType \in {"pullrequests", "pull_requests"} -> formatPullRequestsTable(items)
      [] entityType = "issues" -> formatIssuesTable(items)
      [] entityType = "pipelines" -> formatPipelinesTable(items)
      [] entityType = "webhooks" -> formatWebhooksTable(items)
      [] entityType = "comments" -> formatCommentsTable(items)
      [] OTHER -> formatGenericTable(items)

\* the lines before the items: heading, counts, "more" notice
summaryLines(data, entityType) ==
    <<Template(<<Str("## "), Str(capitalize(entityType))>>), Str("")>>
    \o (IF Get(data, "total").t # "undefined"
        THEN <<Template(<<Str("**Total:** "), String(Get(data, "total")),
                          Str(" | **Showing:** "), String(Get(data, "count"))>>)>>
        ELSE <<Template(<<Str("**Showing:** "), String(Get(data, "count"))>>)>>)
    \o (IF Truthy(Get(data, "hasMore")) THEN <<Str("**More available:** Yes")>> ELSE <<>>)
    \o <<Str("")>>

\* formatPaginatedAsMarkdown without the test for an empty page
formatPaginatedAsMarkdownAlwaysTable(data, entityType) ==
    LET table == formatItemsTable(data.f.items.l, entityType) IN
    IF table.threw THEN table
    ELSE Returned(Markdown(summaryLines(data, entityType)
                           \o (IF "lines" \in DOMAIN table.value THEN table.value.lines
                               ELSE <<table.value>>)))

formatPaginatedAsMarkdown(data, entityType) ==
    IF data.f.items.l = <<>>
    THEN Returned(Markdown(summaryLines(data, entityType) \o <<Str("_No items found._")>>))
    ELSE LET table == formatItemsTable(data.f.items.l, entityType) IN
         IF table.threw THEN table
         ELSE Returned(Markdown(summaryLines(data, entityType) \o table.value.lines))

\* a code fence line: three backquotes followed by the language
Fence(language) == [t |-> "string", fence |-> language]

\* the lines of one entry of formatObjectAsMarkdown
entryLines(key, value) ==
    IF value.t \in {"object", "array"}
    THEN <<Template(<<Str("**"), Str(formatKey(key)), Str(":**")>>),
           Fence("json"), JSONstringify(value), Fence("")>>
    ELSE <<Template(<<Str("**"), Str(formatKey(key)), Str(":** "), String(value)>>)>>

\* a view that skips no property
skippedNever(value) == FALSE

\* if (value === null || value === undefined) continue
skipped(value) == Nullish(value)

\* the entries of the object's properties from the i-th on
RECURSIVE entriesFrom(_, _, _)
entriesFrom(data, keys, i) ==
    IF i > Len(keys) THEN <<>>
    ELSE (IF skipped(data.f[keys[i]]) THEN <<>> ELSE entryLines(keys[i], data.f[keys[i]]))
         \o entriesFrom(data, keys, i + 1)

formatObjectAsMarkdown(data, entityType) ==
    Markdown(<<Template(<<Str("## "), Str(capitalize(withoutFinalS(entityType)))>>), Str("")>>
             \o entriesFrom(data, Object_keys(data), 1))

formatArrayAsMarkdown(data, entityType) == formatGenericTable(data.l)

formatAsMarkdown(data, entityType) ==
    IF isPaginatedResponse(data) THEN formatPaginatedAsMarkdown(data, entityType)
    ELSE IF data.t = "array" THEN formatArrayAsMarkdown(data, entityType)
    ELSE IF data.t = "object" THEN Returned(formatObjectAsMarkdown(data, entityType))
    ELSE Returned(String(data))

\* formatResponse: the ToolResponse, or the error the formatting step throws
formatResponse(data, format, entityType) ==
    IF format = "markdown"
    THEN LET text == formatAsMarkdown(data, entityType) IN
         IF text.threw THEN text
         ELSE Returned([content |-> TextContent(text.value)])
    ELSE Returned([content |-> TextContent(JSONstringify(data))])

formatError(error) ==
    LET errorInfo == formatErrorForLogging(error)
        message ==
            IF instanceofBitbucketApiError(error) /\ retryable(error)
            THEN <<Str("Error: "), error.message, Str(" (retryable)")>>
            ELSE <<Str("Error: "), error.message>>
    IN  [content |-> TextContent(JSONstringify(
                        Obj([error |-> [t |-> "string", parts |-> message],
                             details |-> errorInfo]))),
         isError |-> TRUE]

-----------------------------------------------------------------------------
(* Tools: one representative of every handler family                       *)

ListTool == "bitbucket_list_workspaces"      \* list: request + convertPaginatedResponse + formatResponse
GetTool == "bitbucket_get_workspace"         \* get: request + formatResponse
RawTool == "bitbucket_get_diff"              \* raw text: requestRaw, text returned as is
MutatingTool == "bitbucket_delete_download"  \* mutation: request, success envelope
TestTool == "bitbucket_test_connection"

Tools == {ListTool, GetTool, RawTool, MutatingTool, TestTool}

Invocations ==
    [tool : {ListTool, GetTool}, format : {"json", "markdown"}]
    \cup [tool : {RawTool, MutatingTool, TestTool}, format : {"json"}]

\* the promise of the request helper the tool's client method awaits
requestOf(cl, tool, settled) ==
    IF tool = RawTool THEN requestRaw(cl, settled) ELSE request(cl, settled)

\* a testConnection without its catch block
testConnectionRethrowing(requested) ==
    IF requested.threw THEN requested
    ELSE Returned(Obj([connected |-> Bool(TRUE),
                       message |-> Str("Successfully connected to Bitbucket")]))

\* client.testConnection(), given how its request('/user') ended
testConnection(requested) ==
    IF requested.threw
    THEN Returned(Obj([connected |-> Bool(FALSE), message |-> requested.error.message]))
    ELSE Returned(Obj([connected |-> Bool(TRUE),
                       message |-> Str("Successfully connected to Bitbucket")]))

\* client methods whose mutation resolves whatever its request did
clientMethodResolvingMutation(tool, requested) ==
    IF tool = TestTool THEN testConnection(requested)
    ELSE IF tool = MutatingTool THEN Returned(Undefined)
    ELSE IF requested.threw THEN requested
    ELSE IF tool = ListTool THEN convertPaginatedResponse(requested.value)
    ELSE requested

\* the client method of the tool, given how its request helper ended
clientMethod(tool, requested) ==
    IF tool = TestTool THEN testConnection(requested)
    ELSE IF requested.threw THEN requested
    ELSE IF tool = ListTool THEN convertPaginatedResponse(requested.value)
    ELSE IF tool = MutatingTool THEN Returned(Undefined)
    ELSE requested

\* the handler's try block from the client method's completion on: what the
\* client method threw, or the formatting step
tryBlock(inv, called) ==
    IF called.threw THEN called
    ELSE IF inv.tool \in {ListTool, GetTool}
    THEN formatResponse(called.value, inv.format,
                        IF inv.tool = ListTool THEN "workspaces" ELSE "workspace")
    ELSE IF inv.tool = RawTool THEN Returned([content |-> TextContent(called.value)])
    ELSE IF inv.tool = MutatingTool
    THEN Returned([content |-> TextContent(JSONstringify(
                      Obj([success |-> Bool(TRUE), message |-> Str("Download deleted")])))])
    ELSE Returned([content |-> TextContent(JSONstringify(called.value))])

\* a handler that flags every response it returns
catchBlockFlaggingAll(inv, tried) ==
    IF ~tried.threw THEN [content |-> tried.value.content, isError |-> TRUE]
    ELSE formatError(tried.error)

\* what the handler returns given how its try block completed: the value the
\* try block returned, or the catch block's response to what it threw
catchBlock(inv, tried) ==
    IF ~tried.threw THEN tried.value
    ELSE IF inv.tool = TestTool
    THEN [content |-> TextContent([t |-> "string",
                                   parts |-> <<Str("Connection failed: "), tried.error.message>>]),
          isError |-> TRUE]
    ELSE formatError(tried.error)

\* a handler whose formatting step runs after the try/catch
handlerFormatsOutsideTry(inv, requested) ==
    LET called == clientMethod(inv.tool, requested)
    IN  IF called.threw
        THEN [escaped |-> FALSE, response |-> catchBlock(inv, called)]
        ELSE LET tried == tryBlock(inv, called)
             IN  IF tried.threw
                 THEN [escaped |-> TRUE, response |-> NoToolResponse]
                 ELSE [escaped |-> FALSE, response |-> tried.value]

\* the tool handler: try { await client.method(); format } catch { formatError }
handler(inv, requested) ==
    [escaped |-> FALSE,
     response |-> catchBlock(inv, tryBlock(inv, clientMethod(inv.tool, requested)))]


-----------------------------------------------------------------------------
(* What the upstream may answer                                            *)

SeqsUpTo(S, n) == UNION {[1..k -> S] : k \in 0..n}

HeaderChars == {"3", "0", "a", "-", " "}

RetryAfterHeaders ==
    {Null} \cup {StrC(cs) : cs \in SeqsUpTo(HeaderChars, MaxRetryAfterLen)}

Body(parses, json) == [parses |-> parses, json |-> json]
Unparseable == Body(FALSE, Undefined)

Response(status, retryAfter, contentType, body) ==
    [kind |-> "response", status |-> status, retryAfter |-> retryAfter,
     contentType |-> contentType, body |-> body]

Rejections == {[kind |-> "rejected", reason |-> Str("fetch failed")]}

ErrorMessages == {Undefined, Str(""), Str("Repository not found")}

ErrorJson ==
    {Null} \cup
    {Obj([error |-> e, message |-> m]) :
        e \in {Undefined, Str(""), Str("forbidden operation")}
              \cup {Obj([message |-> em]) : em \in ErrorMessages},
        m \in {Undefined, Str(""), Str("Bad request")}}

ErrorBodies == {Unparseable} \cup {Body(TRUE, j) : j \in ErrorJson}

Workspace ==
    Object(<< <<"uuid", Str("{ws-1}")>>, <<"name", Str("Acme")>>, <<"slug", Str("acme")>> >>)

RawPages ==
    {Obj([values |-> Arr(items), next |-> next]) :
        items \in {<<>>, <<Workspace>>, <<Null>>},
        next \in {Undefined, Str("https://api.bitbucket.org/2.0/workspaces?page=2")}}

OkBodies == {Unparseable} \cup {Body(TRUE, j) : j \in RawPages \cup {Workspace, Null}}

Settlements ==
    Rejections
    \cup {Response(429, h, "application/json", Unparseable) : h \in RetryAfterHeaders}
    \cup {Response(st, Null, "application/json", Unparseable) : st \in {401, 403, 204}}
    \cup {Response(st, Null, "application/json", b) : st \in {404, 500}, b \in ErrorBodies}
    \cup {Response(200, Null, ct, b) : ct \in {"application/json", "text/plain"}, b \in OkBodies}

-----------------------------------------------------------------------------
(* The Worker: index.ts                                                    *)

\* createStatelessServer(credentials)
createStatelessServer(credentials) ==
    [constructed |-> TRUE, client |-> createBitbucketClient(credentials)]

\* a module-level client shared by every server: the first one constructed
clientOfShared(srv, r) == srv[CHOOSE q \in Slots : srv[q].constructed].client

\* the client the handlers registered on slot r's server close over
clientOf(srv, r) == srv[r].client

Init ==
    /\ pc = [r \in Slots |-> "idle"]
    /\ inbound = [r \in Slots |-> NoRequest]
    /\ httpResponse = [r \in Slots |-> NoResponse]
    /\ server = [r \in Slots |-> NoServer]
    /\ validated = [r \in Slots |-> FALSE]
    /\ invocation = [r \in Slots |-> NoInvocation]
    /\ outbound = [r \in Slots |-> <<>>]
    /\ upstream = [r \in Slots |-> NoUpstream]
    /\ toolResponse = [r \in Slots |-> NoToolResponse]
    /\ escaped = [r \in Slots |-> FALSE]
    /\ argument = NoArgument
    /\ outcome = NoOutcome

\* a Worker that serves /mcp whatever the method of the request
fetchAnyMethod(r, req) ==
    /\ pc[r] = "idle"
    /\ inbound' = [inbound EXCEPT ![r] = req]
    /\ IF req.path = "/health"
       THEN /\ httpResponse' = [httpResponse EXCEPT ![r] = [status |-> 200, body |-> "health"]]
            /\ pc' = [pc EXCEPT ![r] = "responded"]
            /\ UNCHANGED <<server, validated>>
       ELSE IF req.path = "/mcp"
       THEN LET credentials == parseTenantCredentials(req) IN
            IF ~validateCredentials(credentials)
            THEN /\ httpResponse' = [httpResponse EXCEPT ![r] = [status |-> 401, body |-> "Unauthorized"]]
                 /\ pc' = [pc EXCEPT ![r] = "responded"]
                 /\ UNCHANGED <<server, validated>>
            ELSE /\ validated' = [validated EXCEPT ![r] = TRUE]
                 /\ server' = [server EXCEPT ![r] = createStatelessServer(credentials)]
                 /\ pc' = [pc EXCEPT ![r] = "serving"]
                 /\ UNCHANGED httpResponse
       ELSE IF req.path = "/sse"
       THEN /\ httpResponse' = [httpResponse EXCEPT ![r] = [status |-> 501, body |-> "sse"]]
            /\ pc' = [pc EXCEPT ![r] = "responded"]
            /\ UNCHANGED <<server, validated>>
       ELSE /\ httpResponse' = [httpResponse EXCEPT ![r] = [status |-> 200, body |-> "info"]]
            /\ pc' = [pc EXCEPT ![r] = "responded"]
            /\ UNCHANGED <<server, validated>>
    /\ UNCHANGED <<invocation, outbound, upstream, toolResponse, escaped,
                   argument, outcome>>

\* the Worker's fetch handler, up to the hand-over to the MCP handler
fetch(r, req) ==
    /\ pc[r] = "idle"
    /\ inbound' = [inbound EXCEPT ![r] = req]
    /\ IF req.path = "/health"
       THEN /\ httpResponse' = [httpResponse EXCEPT ![r] = [status |-> 200, body |-> "health"]]
            /\ pc' = [pc EXCEPT ![r] = "responded"]
            /\ UNCHANGED <<server, validated>>
       ELSE IF req.path = "/mcp" /\ req.method = "POST"
       THEN LET credentials == parseTenantCredentials(req) IN
            IF ~validateCredentials(credentials)
            THEN /\ httpResponse' = [httpResponse EXCEPT ![r] = [status |-> 401, body |-> "Unauthorized"]]
                 /\ pc' = [pc EXCEPT ![r] = "responded"]
                 /\ UNCHANGED <<server, validated>>
            ELSE /\ validated' = [validated EXCEPT ![r] = TRUE]
                 /\ server' = [server EXCEPT ![r] = createStatelessServer(credentials)]
                 /\ pc' = [pc EXCEPT ![r] = "serving"]
                 /\ UNCHANGED httpResponse
       ELSE IF req.path = "/sse"
       THEN /\ httpResponse' = [httpResponse EXCEPT ![r] = [status |-> 501, body |-> "sse"]]
            /\ pc' = [pc EXCEPT ![r] = "responded"]
            /\ UNCHANGED <<server, validated>>
       ELSE /\ httpResponse' = [httpResponse EXCEPT ![r] = [status |-> 200, body |-> "info"]]
            /\ pc' = [pc EXCEPT ![r] = "responded"]
            /\ UNCHANGED <<server, validated>>
    /\ UNCHANGED <<invocation, outbound, upstream, toolResponse, escaped,
                   argument, outcome>>

\* a caller of the exported factory builds a client and registers the tools
\* on a server of its own
construct(r, credentials) ==
    /\ pc[r] = "idle"
    /\ server' = [server EXCEPT ![r] =
                     [constructed |-> TRUE, client |-> createBitbucketClient(credentials)]]
    /\ pc' = [pc EXCEPT ![r] = "serving"]
    /\ UNCHANGED <<inbound, httpResponse, validated, invocation, outbound,
                   upstream, toolResponse, escaped, argument, outcome>>

\* the MCP server dispatches a tool call: the handler runs up to its
\* `await fetch(...)`, or to its end when getAuthHeaders throws
callTool(r, inv) ==
    /\ pc[r] = "serving"
    /\ invocation' = [invocation EXCEPT ![r] = inv]
    /\ LET cl == clientOf(server, r)
           auth == getAuthHeaders(cl)
       IN  IF auth.threw
           THEN \E done \in {handler(inv, Thrown(auth.error))} :
                /\ toolResponse' = [toolResponse EXCEPT ![r] = done.response]
                /\ escaped' = [escaped EXCEPT ![r] = done.escaped]
                /\ pc' = [pc EXCEPT ![r] = "returned"]
                /\ UNCHANGED outbound
           ELSE /\ outbound' = [outbound EXCEPT ![r] = Append(@, FetchCall(cl))]
                /\ pc' = [pc EXCEPT ![r] = "awaiting"]
                /\ UNCHANGED <<toolResponse, escaped>>
    /\ UNCHANGED <<inbound, httpResponse, server, validated, upstream,
                   argument, outcome>>

\* the outbound fetch settles: the upstream answers, or the transport fails
fetchSettles(r, settled) ==
    /\ pc[r] = "awaiting"
    /\ upstream' = [upstream EXCEPT ![r] = settled]
    /\ pc' = [pc EXCEPT ![r] = "settled"]
    /\ UNCHANGED <<inbound, httpResponse, server, validated, invocation,
                   outbound, toolResponse, escaped, argument, outcome>>

\* the handler resumes after the await and runs to its return
handlerResumes(r) ==
    /\ pc[r] = "settled"
    /\ IF refetch(upstream[r])
       THEN /\ outbound' = [outbound EXCEPT ![r] = Append(@, FetchCall(clientOf(server, r)))]
            /\ pc' = [pc EXCEPT ![r] = "awaiting"]
            /\ UNCHANGED <<toolResponse, escaped>>
       ELSE \E requested \in {requestOf(clientOf(server, r), invocation[r].tool,
                                        upstream[r])} :
            \E done \in {handler(invocation[r], requested)} :
                /\ toolResponse' = [toolResponse EXCEPT ![r] = done.response]
                /\ escaped' = [escaped EXCEPT ![r] = done.escaped]
                /\ pc' = [pc EXCEPT ![r] = "returned"]
                /\ UNCHANGED outbound
    /\ UNCHANGED <<inbound, httpResponse, server, validated, invocation, upstream,
                   argument, outcome>>

\* one inbound request at a time, every input the Worker can receive
Next ==
    \E r \in {1} :
        \/ \E req \in Requests(r) : fetch(r, req)
        \/ \E credentials \in TenantCredentials(r) : construct(r, credentials)
        \/ \E inv \in Invocations : callTool(r, inv)
        \/ \E settled \in Settlements : fetchSettles(r, settled)
        \/ handlerResumes(r)

Spec == Init /\ [][Next]_vars

\* every kind of upstream answer, with the shorter Retry-After values
ServingSettlements ==
    {settled \in Settlements :
        settled.kind = "response" /\ settled.retryAfter.t = "string"
            => Len(settled.retryAfter.chars) <= 1}

\* one inbound request with well-formed headers, every tool and every
\* kind of upstream answer
NextServing ==
    \/ \E req \in {q \in Requests(1) : \A h \in DOMAIN q.headers : q.headers[h] # Str("")} :
          fetch(1, req)
    \/ \E inv \in Invocations : callTool(1, inv)
    \/ \E settled \in ServingSettlements : fetchSettles(1, settled)
    \/ handlerResumes(1)

\* the handler is scheduled once its awaited promise has settled
FairSpec == Init /\ [][NextServing]_vars /\ WF_vars(handlerResumes(1))


-----------------------------------------------------------------------------
(* Two inbound requests handled concurrently, over a selection of inputs   *)

ConcurrentRequests(r) ==
    {req \in Requests(r) :
        /\ req.path \in {"/mcp", "/health"}
        /\ req.method = "POST"
        /\ req.headers.username.t = req.headers.appPassword.t
        /\ \A h \in {"username", "appPassword", "accessToken"} : req.headers[h] # Str("")}

ConcurrentInvocations ==
    {inv \in Invocations : inv.tool \in {ListTool, RawTool} /\ inv.format = "json"}

ConcurrentSettlements ==
    {settled \in Settlements :
        \/ settled.kind = "rejected"
        \/ settled.status \in {401, 403}
        \/ /\ settled.status = 200
           /\ settled.contentType = "application/json"
           /\ settled.body = Body(TRUE, Workspace)}

NextConcurrent ==
    \E r \in Slots :
        \/ \E req \in ConcurrentRequests(r) : fetch(r, req)
        \/ \E inv \in ConcurrentInvocations : callTool(r, inv)
        \/ \E settled \in ConcurrentSettlements : fetchSettles(r, settled)
        \/ handlerResumes(r)

SpecConcurrent == Init /\ [][NextConcurrent]_vars

-----------------------------------------------------------------------------
(* The pagination and formatting functions applied on their own            *)

\* most items on a page
MaxItems == 2

PullRequest(id, author) ==
    JsonObject(<< <<"id", Num(id)>>, <<"title", Str("Fix login")>>, <<"state", Str("OPEN")>>,
              <<"author", author>>,
              <<"source", Object(<< <<"branch", Object(<< <<"name", Str("feature")>> >>)>> >>)>>,
              <<"destination", Object(<< <<"branch", Object(<< <<"name", Str("main")>> >>)>> >>)>> >>)

Account == Object(<< <<"display_name", Str("Ada Lovelace")>>, <<"username", Str("ada")>> >>)

\* a payload that lacks the source and destination of a pull request
PullRequestWithoutBranches ==
    Object(<< <<"id", Num(9)>>, <<"title", Str("Draft")>>, <<"state", Str("OPEN")>> >>)

Commit ==
    Object(<< <<"hash", StrC(<<"0", "a", "1", "b", "2", "c", "3", "d", "4">>)>>,
              <<"message", StrC(<<"f", "i", "x", "\n", "m", "o", "r", "e">>)>>,
              <<"author", Object(<< <<"raw", Str("Ada <ada@example.org>")>>,
                                    <<"user", Account>> >>)>>,
              <<"date", Str("2024-05-01T10:00:00+00:00")>> >>)

\* a payload that lacks the hash of a commit
CommitWithoutHash == Object(<< <<"message", StrC(<<"w", "i", "p">>)>> >>)

\* a comment of two lines by a user without a display name
Comment ==
    Object(<< <<"id", Num(3)>>,
              <<"content", Object(<< <<"raw", StrC(<<"o", "k", "\n", "b", "u", "t">>)>> >>)>>,
              <<"user", Object(<< <<"username", Str("grace")>> >>)>>,
              <<"created_on", Str("2024-05-02T09:00:00+00:00")>> >>)

\* a tag: an entity kind without a table of its own, with more than 5 fields
Tag ==
    Object(<< <<"type", Str("tag")>>, <<"name", Str("v1.0")>>, <<"message", Null>>,
              <<"date", Str("2024-05-01T10:00:00+00:00")>>,
              <<"target", Object(<< <<"hash", Str("0a1b2c3d4")>> >>)>>,
              <<"links", Object(<<>>)>> >>)

\* a pipeline variable: fewer than 5 fields
Variable ==
    Object(<< <<"key", Str("TOKEN")>>, <<"secured", Bool(TRUE)>>, <<"uuid", Str("{var-1}")>> >>)

\* the items a page of the upstream may carry
Items ==
    {Workspace, PullRequest(7, Account), PullRequest(8, Undefined), PullRequestWithoutBranches,
     Commit, CommitWithoutHash, Comment, Tag, Variable, Null, Num(5)}

\* the envelopes of the upstream: BitbucketPaginatedResponse
Envelopes ==
    {JsonObject(<< <<"size", size>>, <<"pagelen", pagelen>>, <<"next", next>>,
                   <<"values", Arr(values)>> >>) :
        size \in {Undefined, Num(42)},
        pagelen \in {Undefined, Num(10)},
        next \in {Undefined, Str(""), Str("https://api.bitbucket.org/2.0/workspaces?page=2")},
        values \in SeqsUpTo(Items, MaxItems)}

\* longest filter expression, in characters
MaxQueryLen == 2

\* the PaginationParams a caller may pass, and no params at all
PaginationParams ==
    {Undefined} \cup
    {JsonObject(<< <<"pagelen", pagelen>>, <<"page", page>>, <<"q", q>>,
                   <<"sort", sort>> >>) :
        pagelen \in {Undefined} \cup {Num(n) : n \in {0 - 5, 0, 1, 50, 100, 150}},
        page \in {Undefined, Num(0), Num(2)},
        q \in {Undefined} \cup {StrC(cs) : cs \in SeqsUpTo({"a", " ", "&", "="}, MaxQueryLen)},
        sort \in {Undefined, StrC(<<>>), StrC(<<"-", "n", "a", "m", "e">>),
                  StrC(<<"a", ",", "b">>)}}

\* the entityType arguments of the tools: the kinds with a table of their
\* own, kinds without one, and kinds of single entities
EntityTypes ==
    {"workspaces", "repositories", "branches", "commits", "pullrequests", "pull_requests",
     "issues", "pipelines", "webhooks", "comments"}
    \cup {"tags", "variables"}
    \cup {"workspace", "pullrequest", "tag"}

\* the pages the client list operations return
Pages ==
    {convertPaginatedResponse(raw).value :
        raw \in {envelope \in Envelopes : "pagelen" \notin DOMAIN envelope.f}}
    \cup {emptyPaginatedResponse}

\* what the tools hand to formatResponse: pages, single entities, arrays,
\* and the undefined of an empty answer
FormatData ==
    Pages \cup Items \cup {Arr(values) : values \in SeqsUpTo(Items, MaxItems)} \cup {Undefined}

\* the input bitbucket_update_issue hands to client.updateIssue:
\* { title, ...(content !== undefined && {content: {raw: content}}), state,
\*   kind, priority, ...(assignee_uuid !== undefined && {assignee: ...}) }
updateIssueInputUnlessFalsy(args) ==
    Object(<< <<"title", Get(args, "title")>> >>
           \o (IF Get(args, "content") # Undefined
               THEN << <<"content", Object(<< <<"raw", Get(args, "content")>> >>)>> >>
               ELSE <<>>)
           \o << <<"state", Get(args, "state")>>, <<"kind", Get(args, "kind")>>,
                 <<"priority", Get(args, "priority")>> >>
           \o (IF Truthy(Get(args, "assignee_uuid"))
               THEN << <<"assignee", Object(<< <<"uuid", Get(args, "assignee_uuid")>> >>)>> >>
               ELSE <<>>))

updateIssueInput(args) ==
    Object(<< <<"title", Get(args, "title")>> >>
           \o (IF Get(args, "content") # Undefined
               THEN << <<"content", Object(<< <<"raw", Get(args, "content")>> >>)>> >>
               ELSE <<>>)
           \o << <<"state", Get(args, "state")>>, <<"kind", Get(args, "kind")>>,
                 <<"priority", Get(args, "priority")>> >>
           \o (IF Get(args, "assignee_uuid") # Undefined
               THEN << <<"assignee",
                         IF Truthy(Get(args, "assignee_uuid"))
                         THEN Object(<< <<"uuid", Get(args, "assignee_uuid")>> >>)
                         ELSE Null>> >>
               ELSE <<>>))

\* client.updateIssue: the request it hands to this.request
updateIssue(input) == [method |-> "PUT", body |-> JSONstringify(input)]

\* the arguments the schema of bitbucket_update_issue lets through
IssueUpdates ==
    {JsonObject(<< <<"title", title>>, <<"content", content>>, <<"state", state>>,
                   <<"priority", priority>>, <<"assignee_uuid", assignee_uuid>> >>) :
        title \in {Undefined, Str("Crash on login")},
        content \in {Undefined, Str(""), Str("Steps to reproduce")},
        state \in {Undefined, Str("resolved")},
        priority \in {Undefined, Str("major")},
        assignee_uuid \in {Undefined, Null, Str(""), Str("{account-1}")}}

\* the target bitbucket_trigger_pipeline hands to client.triggerPipeline:
\* { type, name, ...(selector_type && {selector: {type, pattern}}) }
triggerPipelineTarget(args) ==
    Object(<< <<"type", Get(args, "target_type")>>, <<"name", Get(args, "target_name")>> >>
           \o (IF Truthy(Get(args, "selector_type"))
               THEN << <<"selector",
                         Object(<< <<"type", Get(args, "selector_type")>>,
                                   <<"pattern", Get(args, "selector_pattern")>> >>)>> >>
               ELSE <<>>))

\* client.triggerPipeline: the request it hands to this.request; the target
\* of a commit replaces the target built first
triggerPipeline(target) ==
    LET refTarget ==
            Object(<< <<"type", Str("pipeline_ref_target")>>,
                      <<"ref_type", IF Get(target, "type") = Str("commit") THEN Str("branch")
                                    ELSE Get(target, "type")>>,
                      <<"ref_name", Get(target, "name")>> >>
                   \o (IF Truthy(Get(target, "selector"))
                       THEN << <<"selector", Get(target, "selector")>> >> ELSE <<>>))
        commitTarget ==
            Object(<< <<"type", Str("pipeline_commit_target")>>,
                      <<"commit", Object(<< <<"hash", Get(target, "name")>> >>)>> >>)
    IN  [method |-> "POST",
         body |-> JSONstringify(Object(<< <<"target",
                                           IF Get(target, "type") = Str("commit")
                                           THEN commitTarget ELSE refTarget>> >>))]

\* the arguments the schema of bitbucket_trigger_pipeline lets through
PipelineTriggers ==
    {JsonObject(<< <<"target_type", target_type>>, <<"target_name", target_name>>,
                   <<"selector_type", selector_type>>,
                   <<"selector_pattern", selector_pattern>> >>) :
        target_type \in {Str("branch"), Str("tag"), Str("commit")},
        target_name \in {Str(""), Str("main"), Str("0a1b2c3d4")},
        selector_type \in {Undefined, Str("custom"), Str("default")},
        selector_pattern \in {Undefined, Str(""), Str("deploy")}}

Applications ==
    [fn : {"convertPaginatedResponse", "listWorkspaces"}, raw : Envelopes]
    \cup [fn : {"emptyPaginatedResponse"}]
    \cup [fn : {"buildPaginationQuery"}, params : PaginationParams]
    \cup [fn : {"bitbucket_update_issue"}, args : IssueUpdates]
    \cup [fn : {"bitbucket_trigger_pipeline"}, args : PipelineTriggers]
    \cup [fn : {"formatResponse"}, data : FormatData, format : {"json", "markdown"},
          entityType : EntityTypes]

InitLibrary ==
    /\ pc = [r \in Slots |-> "idle"]
    /\ inbound = [r \in Slots |-> NoRequest]
    /\ httpResponse = [r \in Slots |-> NoResponse]
    /\ server = [r \in Slots |-> NoServer]
    /\ validated = [r \in Slots |-> FALSE]
    /\ invocation = [r \in Slots |-> NoInvocation]
    /\ outbound = [r \in Slots |-> <<>>]
    /\ upstream = [r \in Slots |-> NoUpstream]
    /\ toolResponse = [r \in Slots |-> NoToolResponse]
    /\ escaped = [r \in Slots |-> FALSE]
    /\ argument \in Applications
    /\ outcome = NoOutcome

normalize ==
    /\ argument.fn = "convertPaginatedResponse" /\ ~outcome.applied
    /\ outcome' = [applied |-> TRUE, completion |-> convertPaginatedResponse(argument.raw)]
    /\ UNCHANGED <<pc, inbound, httpResponse, server, validated, invocation, outbound,
                   upstream, toolResponse, escaped, argument>>

\* client.listWorkspaces() once its request has resolved to the envelope
listWorkspaces ==
    /\ argument.fn = "listWorkspaces" /\ ~outcome.applied
    /\ outcome' = [applied |-> TRUE, completion |->
                    clientMethod(ListTool, Returned(argument.raw))]
    /\ UNCHANGED <<pc, inbound, httpResponse, server, validated, invocation, outbound,
                   upstream, toolResponse, escaped, argument>>

empty ==
    /\ argument.fn = "emptyPaginatedResponse" /\ ~outcome.applied
    /\ outcome' = [applied |-> TRUE, completion |-> Returned(emptyPaginatedResponse)]
    /\ UNCHANGED <<pc, inbound, httpResponse, server, validated, invocation, outbound,
                   upstream, toolResponse, escaped, argument>>

buildQuery ==
    /\ argument.fn = "buildPaginationQuery" /\ ~outcome.applied
    /\ outcome' = [applied |-> TRUE, completion |->
                    Returned(buildPaginationQuery(argument.params))]
    /\ UNCHANGED <<pc, inbound, httpResponse, server, validated, invocation, outbound,
                   upstream, toolResponse, escaped, argument>>

format ==
    /\ argument.fn = "formatResponse" /\ ~outcome.applied
    /\ outcome' = [applied |-> TRUE, completion |->
                    formatResponse(argument.data, argument.format, argument.entityType)]
    /\ UNCHANGED <<pc, inbound, httpResponse, server, validated, invocation, outbound,
                   upstream, toolResponse, escaped, argument>>

\* bitbucket_update_issue up to the request client.updateIssue makes
bitbucket_update_issue ==
    /\ argument.fn = "bitbucket_update_issue" /\ ~outcome.applied
    /\ outcome' = [applied |-> TRUE, completion |->
                    Returned(updateIssue(updateIssueInput(argument.args)))]
    /\ UNCHANGED <<pc, inbound, httpResponse, server, validated, invocation, outbound,
                   upstream, toolResponse, escaped, argument>>

\* bitbucket_trigger_pipeline up to the request client.triggerPipeline makes
bitbucket_trigger_pipeline ==
    /\ argument.fn = "bitbucket_trigger_pipeline" /\ ~outcome.applied
    /\ outcome' = [applied |-> TRUE, completion |->
                    Returned(triggerPipeline(triggerPipelineTarget(argument.args)))]
    /\ UNCHANGED <<pc, inbound, httpResponse, server, validated, invocation, outbound,
                   upstream, toolResponse, escaped, argument>>

NextLibrary ==
    \/ normalize
    \/ listWorkspaces
    \/ empty
    \/ buildQuery
    \/ bitbucket_update_issue
    \/ bitbucket_trigger_pipeline
    \/ format

SpecLibrary == InitLibrary /\ [][NextLibrary]_vars


-----------------------------------------------------------------------------
(* Vocabulary of the properties                                            *)

IsError(response) == "isError" \in DOMAIN response /\ response.isError = TRUE

\* {content: [{type: 'text', text}], isError?}
IsToolResponse(response) ==
    /\ DOMAIN response \subseteq {"content", "isError"}
    /\ Len(response.content) = 1
    /\ DOMAIN response.content[1] = {"type", "text"}
    /\ response.content[1].type = "text"
    /\ ("isError" \in DOMAIN response => response.isError \in BOOLEAN)

\* the outbound call of the invocation failed: transport failure or non-2xx
UpstreamFailed(r) ==
    \/ upstream[r].kind = "rejected"
    \/ upstream[r].kind = "response" /\ ~ok(upstream[r])

Answered(r, statuses) ==
    upstream[r].kind = "response" /\ upstream[r].status \in statuses

\* the header carries a value: present and not the empty string
Present(header) == header.t = "string" /\ header # Str("")

CarriesCredentials(headers) ==
    \/ Present(headers.accessToken)
    \/ Present(headers.username) /\ Present(headers.appPassword)

IsMcpPost(req) == req.path = "/mcp" /\ req.method = "POST"

\* the object whose JSON text the error envelope is
ErrorEnvelope(response) == response.content[1].text.json

-----------------------------------------------------------------------------
C2_UpstreamFailureIsErrorFlagged ==
    \A r \in Slots :
        pc[r] = "returned" /\ UpstreamFailed(r) => IsError(toolResponse[r])

(* C3: an invocation issues at most one outbound fetch; after the fetch    *)
(* has failed no further fetch is issued (no retry, not even on 429).      *)
C3_AtMostOneFetchNoRetry ==
    /\ [](\A r \in Slots : Len(outbound[r]) <= 1)
    /\ [][\A r \in Slots : UpstreamFailed(r) => outbound'[r] = outbound[r]]_vars

\* a 429 was answered and the handler returned after exactly one fetch
C3_Witness ==
    /\ pc[1] = "returned"
    /\ Answered(1, {429})
    /\ Len(outbound[1]) = 1
    /\ IsError(toolResponse[1])

(* C4: under any interleaving of concurrently handled requests, every      *)
(* outbound call made for a request carries an Authorization header and a  *)
(* base URL derived from that request's own headers, and the server and    *)
(* client of a slot are the ones built from that slot's request.           *)
C4_OutboundCallUsesOwnCredentials ==
    \A r \in Slots :
        /\ server[r].constructed =>
              /\ IsMcpPost(inbound[r])
              /\ server[r].client.credentials.username \in {Undefined, inbound[r].headers.username}
              /\ server[r].client.credentials.appPassword \in {Undefined, inbound[r].headers.appPassword}
              /\ server[r].client.credentials.accessToken \in {Undefined, inbound[r].headers.accessToken}
        /\ \A i \in DOMAIN outbound[r] :
              LET call == outbound[r][i]
                  headers == inbound[r].headers
              IN  /\ call.Authorization.scheme = "Bearer" =>
                        /\ Present(headers.accessToken)
                        /\ call.Authorization.value = <<headers.accessToken.s>>
                  /\ call.Authorization.scheme = "Basic" =>
                        /\ Present(headers.username) /\ Present(headers.appPassword)
                        /\ call.Authorization.value =
                              <<"base64", headers.username.s, ":", headers.appPassword.s>>
                  /\ call.url = IF Present(headers.baseUrl) THEN headers.baseUrl
                                ELSE Str(API_BASE_URL)

\* both requests have an outbound call in flight at once, with different
\* Authorization headers and base URLs
C4_Witness ==
    /\ pc[1] = "awaiting" /\ pc[2] = "awaiting"
    /\ outbound[1][1].Authorization.scheme = "Bearer"
    /\ outbound[2][1].Authorization.scheme = "Basic"
    /\ outbound[1][1].url # outbound[2][1].url

(* C5: a POST /mcp request without an access token and without a complete  *)
(* username + app password pair (empty values count as missing) is         *)
(* answered 401 and nothing is built or run for it: no server, no client,  *)
(* no tool handler, no outbound call.  The Worker builds a server only     *)
(* after validateCredentials has succeeded.                                *)
C5_MissingCredentialsRejectedBeforeConstruction ==
    \A r \in Slots :
        /\ IsMcpPost(inbound[r]) /\ ~CarriesCredentials(inbound[r].headers) =>
              /\ pc[r] = "responded"
              /\ httpResponse[r].status = 401
              /\ ~server[r].constructed
              /\ invocation[r] = NoInvocation
              /\ outbound[r] = <<>>
              /\ toolResponse[r] = NoToolResponse
        /\ IsMcpPost(inbound[r]) /\ server[r].constructed => validated[r]

\* a username without an app password, and an empty access token: 401
C5_Witness ==
    /\ IsMcpPost(inbound[1])
    /\ inbound[1].headers.username = UsernameOf(1)
    /\ inbound[1].headers.appPassword = Null
    /\ inbound[1].headers.accessToken = Str("")
    /\ httpResponse[1].status = 401

(* C6: constructing the client without an access token and without a      *)
(* complete username + app password pair fails at construction: no client  *)
(* exists without credentials, and no API call ever reports the            *)
(* missing-credentials failure.                                            *)
C6_ConstructionFailsWithoutCredentials ==
    \A r \in Slots :
        /\ server[r].constructed => validateCredentials(server[r].client.credentials)
        /\ pc[r] = "returned" /\ IsError(toolResponse[r]) =>
              ErrorEnvelope(toolResponse[r]).f.error.parts[2] # NoCredentialsMessage

(* C7: on HTTP 429 the rate-limit error is surfaced error-flagged and      *)
(* carries the integer parsed from Retry-After, and 60 when the header is  *)
(* absent or does not parse as an integer.                                 *)
C7_RetryAfterParsedOrSixty ==
    \A r \in Slots :
        pc[r] = "returned" /\ Answered(r, {429})
        /\ invocation[r].tool \in {ListTool, GetTool, MutatingTool} =>
            LET header == upstream[r].retryAfter
                thrown == request(clientOf(server, r), upstream[r]).error
            IN  /\ IsError(toolResponse[r])
                /\ thrown.cls = "RateLimitError"
                /\ thrown.retryAfter.t = "number"
                /\ thrown.retryAfter =
                      IF header.t = "string" /\ parseInt(header.chars) # NaN
                      THEN parseInt(header.chars)
                      ELSE Num(60)

(* C8: for every client operation, the raw-text ones included, a 401 or    *)
(* 403 answer is classified as an authentication failure with the fixed    *)
(* generic message, never as a generic upstream API error.                 *)
C8_AuthFailureClassifiedForEveryOperation ==
    \A r \in Slots :
        pc[r] \in {"settled", "returned"} /\ Answered(r, {401, 403}) =>
            requestOf(clientOf(server, r), invocation[r].tool, upstream[r])
                = Thrown(AuthenticationError(AuthFailedMessage))

\* the structured error message of a parsed error body: error.message,
\* else message, else error
StructuredMessage(json) ==
    LET nested == GetOpt(Get(json, "error"), "message") IN
    IF Truthy(nested) THEN nested
    ELSE IF Truthy(Get(json, "message")) THEN Get(json, "message")
    ELSE Get(json, "error")

(* C9: for a non-2xx answer other than 429/401/403, request() raises an    *)
(* upstream-API error carrying the status code and a message string: the   *)
(* structured error message of the body when it parses as JSON and has     *)
(* one, and exactly "API error: <status>" otherwise.                       *)
C9_UpstreamErrorMessage ==
    \A r \in Slots :
        pc[r] \in {"settled", "returned"} /\ UpstreamFailed(r)
        /\ upstream[r].kind = "response" /\ ~Answered(r, {429, 401, 403})
        /\ invocation[r].tool # RawTool =>
            LET body == upstream[r].body
                thrown == request(clientOf(server, r), upstream[r]).error
                structured == body.parses /\ body.json.t = "object"
                              /\ Truthy(StructuredMessage(body.json))
            IN  /\ thrown.cls = "BitbucketApiError"
                /\ thrown.statusCode = Num(upstream[r].status)
                /\ thrown.message.t = "string"
                /\ thrown.message = IF structured THEN StructuredMessage(body.json)
                                    ELSE ApiErrorMessage(upstream[r].status)

\* every string occurring in a JavaScript value
RECURSIVE StringsOf(_)
StringsOf(v) ==
    (IF "s" \in DOMAIN v THEN {v.s} ELSE {})
    \cup (IF "parts" \in DOMAIN v
          THEN UNION {StringsOf(v.parts[i]) : i \in DOMAIN v.parts} ELSE {})
    \cup (IF "l" \in DOMAIN v
          THEN UNION {StringsOf(v.l[i]) : i \in DOMAIN v.l} ELSE {})
    \cup (IF "f" \in DOMAIN v
          THEN UNION {StringsOf(v.f[k]) : k \in DOMAIN v.f \ {"details"}} ELSE {})

\* every string occurring in the text of an error envelope
TextStrings(response) ==
    LET text == response.content[1].text IN
    IF "json" \in DOMAIN text
    THEN StringsOf(text.json)
         \cup (IF text.json.t = "object" /\ "details" \in DOMAIN text.json.f
               THEN StringsOf(text.json.f.details.f.message) ELSE {})
    ELSE StringsOf(text)

\* the credential values of every tenant, and what is derived from them
CredentialStrings ==
    UNION {{UsernameOf(r).s, AppPasswordOf(r).s, AccessTokenOf(r).s} : r \in Slots}

(* C10: the text of the error response to an upstream 401 or 403 does not  *)
(* depend on the credentials: two invocations of the same tool that        *)
(* differ only in their credential headers return the same text; and no    *)
(* token, password or user name appears in the text of any response to a   *)
(* failed call.                                                            *)
C10_ErrorTextIndependentOfCredentials ==
    /\ \A r1, r2 \in Slots :
          /\ pc[r1] = "returned" /\ pc[r2] = "returned"
          /\ invocation[r1] = invocation[r2]
          /\ Answered(r1, {401, 403}) /\ upstream[r1] = upstream[r2]
          => toolResponse[r1] = toolResponse[r2]
    /\ \A r \in Slots :
          pc[r] = "returned" /\ (IsError(toolResponse[r]) \/ UpstreamFailed(r))
          => TextStrings(toolResponse[r]) \cap CredentialStrings = {}

\* two tenants, one with a token and one with a password, both answered 403
C10_Witness ==
    /\ pc[1] = "returned" /\ pc[2] = "returned"
    /\ invocation[1] = invocation[2]
    /\ Answered(1, {403}) /\ Answered(2, {403})
    /\ outbound[1][1].Authorization.scheme = "Bearer"
    /\ outbound[2][1].Authorization.scheme = "Basic"
    /\ IsError(toolResponse[1])
    /\ toolResponse[1] = toolResponse[2]

-----------------------------------------------------------------------------
(* Vocabulary of the properties of the library functions                   *)

Applied(fn) == outcome.applied /\ argument.fn = fn

\* the value the application returned
Value == outcome.completion.value

(* C11: for every upstream envelope raw, convertPaginatedResponse(raw)     *)
(* returns a page whose items are raw.values, in the same order, and whose *)
(* count is the number of items; the page a client list operation returns  *)
(* has count = items.length.                                               *)
C11_CountIsNumberOfItems ==
    /\ Applied("convertPaginatedResponse") =>
          /\ ~outcome.completion.threw
          /\ Get(Value, "items") = Get(argument.raw, "values")
          /\ Get(Value, "count") = Num(Len(Get(Value, "items").l))
    /\ Applied("listWorkspaces") =>
          /\ ~outcome.completion.threw
          /\ Get(Value, "count") = Num(Len(Get(Value, "items").l))

\* a last page: two items, fewer than the page size the envelope announces
C11_Witness ==
    /\ Applied("convertPaginatedResponse")
    /\ Get(argument.raw, "pagelen") = Num(10)
    /\ Get(Value, "items") = Arr(<<PullRequest(7, Account), PullRequest(8, Undefined)>>)
    /\ Get(Value, "count") = Num(2)

(* C12: for every page produced by convertPaginatedResponse or             *)
(* emptyPaginatedResponse, hasMore is true if and only if nextCursor is    *)
(* present, and nextCursor is present exactly when the envelope carried a  *)
(* next link, the empty string included; without a next link hasMore is    *)
(* false and there is no nextCursor.                                       *)
C12_HasMoreIffNextCursor ==
    /\ Applied("convertPaginatedResponse") \/ Applied("emptyPaginatedResponse") =>
          (Get(Value, "hasMore") = Bool(TRUE) <=> Get(Value, "nextCursor").t # "undefined")
    /\ Applied("convertPaginatedResponse") =>
          /\ Get(Value, "nextCursor") = Get(argument.raw, "next")
          /\ Get(Value, "hasMore") \in {Bool(TRUE), Bool(FALSE)}
          /\ "next" \notin DOMAIN argument.raw.f =>
                 Get(Value, "hasMore") = Bool(FALSE) /\ "nextCursor" \notin DOMAIN Serialized(Value).f

\* the key=value pairs of a query string, in order
QueryParts(query) == IF query = Str("") THEN <<>> ELSE query.parts[2].joined

\* the string a number is written as in a template literal
Written(n) == Str(ToString(n))

(* C13: the page size buildPaginationQuery writes into the query string is *)
(* within 1..maxPagelen (100): a requested page size above the maximum is  *)
(* written as the maximum and one below 1 as 1; pagelen 150 is written as  *)
(* pagelen=100.                                                            *)
C13_PageSizeClamped ==
    Applied("buildPaginationQuery") =>
        \A i \in DOMAIN QueryParts(Value) :
            LET pair == QueryParts(Value)[i].parts
                requested == Get(argument.params, "pagelen").n
                maxPagelen == PAGINATION_DEFAULTS.maxPagelen
            IN  pair[1] = Str("pagelen") =>
                    /\ pair[3] \in {Written(n) : n \in 1..maxPagelen}
                    /\ requested > maxPagelen => pair[3] = Written(maxPagelen)
                    /\ requested < 1 => pair[3] = Written(1)

\* the characters that stand for themselves in a URI component
Unreserved ==
    Digits
    \cup {"a", "b", "c", "d", "e", "f", "g", "h", "i", "j", "k", "l", "m",
          "n", "o", "p", "q", "r", "s", "t", "u", "v", "w", "x", "y", "z"}
    \cup {"A", "B", "C", "D", "E", "F", "G", "H", "I", "J", "K", "L", "M",
          "N", "O", "P", "Q", "R", "S", "T", "U", "V", "W", "X", "Y", "Z"}
    \cup {"-", "_", ".", "!", "~", "*", "'", "(", ")"}

\* the character a %XX escape stands for
Unescape(escape) ==
    CHOOSE c \in {" ", "\"", "#", "$", "%", "&", "+", ",", "/", ":", ";", "<", "=",
                  ">", "?", "@"} : Escape(c) = escape

\* decodeURIComponent over the characters of a string
RECURSIVE Decoded(_)
Decoded(cs) ==
    IF cs = <<>> THEN <<>>
    ELSE IF Head(cs) = "%" THEN <<Unescape(SubSeq(cs, 1, 3))>> \o Decoded(SubSeq(cs, 4, Len(cs)))
    ELSE <<Head(cs)>> \o Decoded(Tail(cs))

\* the value is percent-encoded: only unreserved characters and escapes,
\* and it decodes to the original
PercentEncodes(encoded, original) ==
    /\ \A i \in DOMAIN encoded.chars :
          \/ encoded.chars[i] \in Unreserved
          \/ /\ encoded.chars[i] = "%" /\ i + 2 <= Len(encoded.chars)
             /\ encoded.chars[i + 1] \in Digits \cup {"A", "B", "C", "D", "E", "F"}
             /\ encoded.chars[i + 2] \in Digits \cup {"A", "B", "C", "D", "E", "F"}
    /\ Decoded(encoded.chars) = original.chars

\* the pair the query string carries for a field of params
ExpectedPair(params, key) ==
    Template(<<Str(key), Str("="),
               IF key \in {"q", "sort"} THEN encodeURIComponent(Get(params, key))
               ELSE Written(Get(params, key).n)>>)

\* the pairs of the fields of params that satisfy Emitted, in the fixed order
ExpectedPairs(params, Emitted(_)) ==
    LET keys == SelectSeq(<<"pagelen", "page", "q", "sort">>,
                          LAMBDA key : Emitted(Get(params, key)))
    IN  [i \in DOMAIN keys |-> ExpectedPair(params, keys[i])]

\* the query string is '?' followed by the pairs joined by '&', and the
\* empty string when there is no pair
QueryStringOf(query, pairs) ==
    /\ pairs = <<>> => query = Str("")
    /\ pairs # <<>> => query = Template(<<Str("?"), Joined(pairs, "&")>>)

IsPresent(value) == value.t # "undefined"

(* C14 as stated: buildPaginationQuery emits exactly one key=value pair    *)
(* for each of pagelen, page, q, sort that is present in params and none   *)
(* for absent ones, in that order, joined by '&' after one leading '?',    *)
(* with q and sort percent-encoded; the empty string when params is absent *)
(* or no field is present.                                                 *)
C14_OnePairPerPresentField ==
    Applied("buildPaginationQuery") =>
        QueryStringOf(Value, ExpectedPairs(argument.params, IsPresent))

(* C14, amended: buildPaginationQuery emits exactly one key=value pair     *)
(* for each of pagelen, page, q, sort whose value is truthy (a non-zero    *)
(* number, a non-empty string) and none for the others, in that order,     *)
(* joined by '&' after one leading '?'; the q and sort values are          *)
(* percent-encoded; the result is the empty string when params is absent   *)
(* or no field is truthy.                                                  *)
C14_OnePairPerTruthyField ==
    Applied("buildPaginationQuery") =>
        /\ QueryStringOf(Value, ExpectedPairs(argument.params, Truthy))
        /\ \A i \in DOMAIN QueryParts(Value) :
              LET pair == QueryParts(Value)[i].parts IN
              /\ Len(pair) = 3 /\ pair[2] = Str("=")
              /\ pair[1] \in {Str("q"), Str("sort")} =>
                    PercentEncodes(pair[3], Get(argument.params, pair[1].s))

\* all four fields given, the filter holding a space and an ampersand
C14_Witness ==
    /\ Applied("buildPaginationQuery")
    /\ Get(argument.params, "pagelen") = Num(50)
    /\ Get(argument.params, "page") = Num(2)
    /\ Get(argument.params, "q") = StrC(<<" ", "&">>)
    /\ Get(argument.params, "sort") = StrC(<<"a", ",", "b">>)
    /\ Len(QueryParts(Value)) = 4
    /\ QueryParts(Value)[3].parts[3] = StrC(<<"%", "2", "0", "%", "2", "6">>)

\* formatResponse was applied to the data in the given format
Formatted(fmt) == Applied("formatResponse") /\ argument.format = fmt

\* the text of the ToolResponse formatResponse returned
Text == Value.content[1].text

\* the value a JSON text deserializes to
Deserialized(text) == JSONparse(Body(TRUE, text.json)).value

(* C15: for every envelope raw and every entity kind, the text of          *)
(* formatResponse(convertPaginatedResponse(raw), 'json', kind) is JSON     *)
(* text that deserializes to a value equal to the page: the same items in  *)
(* the same order, the same count, total, hasMore and nextCursor; and the  *)
(* response is the same for every entity kind.                             *)
C15_JsonRoundTrip ==
    Formatted("json") /\ argument.data \in Pages =>
        /\ ~outcome.completion.threw
        /\ IsToolResponse(Value)
        /\ "json" \in DOMAIN Text
        /\ \A field \in {"items", "count", "total", "hasMore", "nextCursor"} :
              Get(Deserialized(Text), field) = Get(argument.data, field)
        /\ DOMAIN Deserialized(Text).f \subseteq DOMAIN argument.data.f
        /\ \A kind \in EntityTypes :
              formatResponse(argument.data, "json", kind) = outcome.completion

\* a page without total and without nextCursor, formatted as JSON
C15_Witness ==
    /\ Formatted("json")
    /\ argument.data \in Pages
    /\ Get(argument.data, "items") = Arr(<<Tag, Null>>)
    /\ "total" \in DOMAIN argument.data.f /\ Get(argument.data, "total") = Undefined
    /\ DOMAIN Deserialized(Text).f = {"items", "count", "hasMore"}

(* C16: formatResponse is total: for any JSON-like data (pages whose items *)
(* are null, are not objects, or lack the fields of their entity kind      *)
(* included), any format and any entityType, it returns a ToolResponse and *)
(* never throws.                                                           *)
C16_FormatterIsTotal ==
    Applied("formatResponse") /\ argument.data # Undefined =>
        /\ ~outcome.completion.threw
        /\ IsToolResponse(Value)
        /\ Text.t = "string"

\* a page was formatted in markdown mode
FormattedPage == Formatted("markdown") /\ isPaginatedResponse(argument.data)

\* the items of the page that was formatted
PageItems == argument.data.f.items.l

\* the table lines of a text: header and data rows, and separator rows
TableLines(text) ==
    IF "lines" \in DOMAIN text
    THEN SelectSeq(text.lines, LAMBDA line : "cells" \in DOMAIN line \/ "dashes" \in DOMAIN line)
    ELSE <<>>

\* the text ends with a table of the given columns and one row per item
EndsWithTable(text, columns, items) ==
    LET table == TableLines(text) IN
    /\ Len(table) = Len(items) + 2
    /\ SubSeq(text.lines, Len(text.lines) - Len(table) + 1, Len(text.lines)) = table
    /\ table[1] = Row(columns)
    /\ table[2] = Separator(Len(columns))
    /\ \A i \in DOMAIN items :
          "cells" \in DOMAIN table[i + 2] /\ Len(table[i + 2].cells) = Len(columns)

\* a pull request as the upstream sends it: with source and destination
IsPullRequest(item) ==
    /\ item.t = "object"
    /\ {"id", "title", "state", "source", "destination"} \subseteq DOMAIN item.f
    /\ Get(Get(item.f.source, "branch"), "name").t = "string"
    /\ Get(Get(item.f.destination, "branch"), "name").t = "string"

(* C17: a non-empty collection of pull requests formatted in markdown mode *)
(* is rendered as a table whose header has exactly the five columns ID,    *)
(* Title, State, Author, Source -> Dest, followed by exactly one data row  *)
(* per item, the rows in the order of the items.                           *)
C17_PullRequestTable ==
    /\ FormattedPage
    /\ argument.entityType \in {"pullrequests", "pull_requests"}
    /\ PageItems # <<>>
    /\ \A i \in DOMAIN PageItems : IsPullRequest(PageItems[i])
    =>  /\ ~outcome.completion.threw
        /\ EndsWithTable(Text, <<Str("ID"), Str("Title"), Str("State"), Str("Author"),
                                 Str("Source -> Dest")>>, PageItems)
        /\ \A i \in DOMAIN PageItems :
              LET cells == TableLines(Text)[i + 2].cells IN
              /\ cells[1] = Template(<<Str("#"), Written(PageItems[i].f.id.n)>>)
              /\ cells[2] = PageItems[i].f.title
              /\ cells[3] = PageItems[i].f.state

\* two pull requests, the one with the higher id first
C17_Witness ==
    /\ FormattedPage
    /\ argument.entityType = "pull_requests"
    /\ PageItems = <<PullRequest(8, Undefined), PullRequest(7, Account)>>
    /\ Len(TableLines(Text)) = 4
    /\ TableLines(Text)[3].cells[1] = Template(<<Str("#"), Str("8")>>)
    /\ TableLines(Text)[4].cells[4] = Str("Ada Lovelace")

(* C18: for every entity kind, a page with zero items formatted in         *)
(* markdown mode ends with the placeholder line '_No items found._' and    *)
(* has no table header and no separator row.                               *)
C18_EmptyPagePlaceholder ==
    FormattedPage /\ PageItems = <<>> =>
        /\ ~outcome.completion.threw
        /\ Text.lines[Len(Text.lines)] = Str("_No items found._")
        /\ TableLines(Text) = <<>>
        /\ Len(SelectSeq(Text.lines, LAMBDA line : line = Str("_No items found._"))) = 1

\* an empty page of pull requests that announces a total
C18_Witness ==
    /\ FormattedPage
    /\ PageItems = <<>>
    /\ argument.entityType = "pullrequests"
    /\ Get(argument.data, "total") = Num(42)
    /\ Text.lines[Len(Text.lines)] = Str("_No items found._")

\* the entity types formatPaginatedAsMarkdown has a table for
HandSpecifiedKinds ==
    {"workspaces", "repositories", "branches", "commits", "pullrequests", "pull_requests",
     "issues", "pipelines", "webhooks", "comments"}

\* the property names of an item in the order they were created
InsertionOrder(item) == IF item.t = "object" THEN item.keys ELSE <<>>

\* the text a cell shows for a value: the value as a string, '-' for a
\* missing or null value
CellOf(value) ==
    CASE value.t \in {"undefined", "null"} -> Str("-")
      [] value.t = "string" -> value
      [] value.t = "number" -> Written(value.n)
      [] value.t = "boolean" -> Str(IF value.b THEN "true" ELSE "false")
      [] value.t = "object" -> Str("[object Object]")

(* C19: a non-empty page whose entityType is not one of the hand-specified *)
(* kinds is rendered in markdown mode as a generic table whose columns are *)
(* exactly the first 5 keys of the first item in insertion order (fewer if *)
(* it has fewer), with one row per item in input order, each cell being    *)
(* the item's value for the column's key (as a string; '-' when missing).  *)
C19_GenericTable ==
    /\ FormattedPage
    /\ argument.entityType \notin HandSpecifiedKinds
    /\ PageItems # <<>>
    /\ \A i \in DOMAIN PageItems : ~Nullish(PageItems[i])
    =>  LET keys == InsertionOrder(PageItems[1])
            columns == IF Len(keys) <= 5 THEN keys ELSE SubSeq(keys, 1, 5)
        IN  /\ ~outcome.completion.threw
            /\ EndsWithTable(Text, [j \in DOMAIN columns |-> Str(columns[j])], PageItems)
            /\ \A i \in DOMAIN PageItems : \A j \in DOMAIN columns :
                  TableLines(Text)[i + 2].cells[j] = CellOf(Get(PageItems[i], columns[j]))

\* tags: the first item has six keys, the second lacks all of them
C19_Witness ==
    /\ FormattedPage
    /\ argument.entityType = "tags"
    /\ PageItems = <<Tag, Variable>>
    /\ TableLines(Text)[1] = Row(<<Str("type"), Str("name"), Str("message"), Str("date"),
                                   Str("target")>>)
    /\ TableLines(Text)[3].cells[2] = Str("v1.0")
    /\ TableLines(Text)[4].cells[2] = Str("-")

\* a single object was formatted in markdown mode: not a page, not an array
FormattedObject ==
    /\ Formatted("markdown")
    /\ argument.data.t = "object"
    /\ ~isPaginatedResponse(argument.data)

\* the entry of one field: a label and the value as a string, or a label
\* and the JSON text of the value between code fences
EntryOf(key, value) ==
    IF value.t \in {"object", "array"}
    THEN <<Template(<<Str("**"), Str(formatKey(key)), Str(":**")>>),
           Fence("json"), [t |-> "string", json |-> value], Fence("")>>
    ELSE <<Template(<<Str("**"), Str(formatKey(key)), Str(":** "), CellOf(value)>>)>>

\* the entries of the fields named by keys, in that order
RECURSIVE EntriesOf(_, _)
EntriesOf(data, keys) ==
    IF keys = <<>> THEN <<>>
    ELSE EntryOf(Head(keys), data.f[Head(keys)]) \o EntriesOf(data, Tail(keys))

\* the text is a heading, an empty line and the entries of the given fields
IsKeyValueList(text, data, keys) ==
    /\ TableLines(text) = <<>>
    /\ Len(text.lines) >= 2
    /\ text.lines[1].parts[1] = Str("## ")
    /\ text.lines[2] = Str("")
    /\ SubSeq(text.lines, 3, Len(text.lines)) = EntriesOf(data, keys)

(* C20 as stated: a single object formatted in markdown mode is never      *)
(* rendered as a table: the text is a heading followed by one key/value    *)
(* entry per field in insertion order, an object-valued field as an        *)
(* embedded JSON block and a scalar field as its string value.             *)
C20_EntryPerField ==
    FormattedObject =>
        /\ ~outcome.completion.threw
        /\ IsKeyValueList(Text, argument.data, InsertionOrder(argument.data))

(* C20, amended: a single object formatted in markdown mode is never       *)
(* rendered as a table: the text is a heading followed by one key/value    *)
(* entry per field whose value is not null, in insertion order, an object- *)
(* or array-valued field as an embedded JSON block and a scalar field as   *)
(* its string value; a field whose value is null has no entry.             *)
C20_EntryPerNonNullField ==
    FormattedObject =>
        /\ ~outcome.completion.threw
        /\ IsKeyValueList(Text, argument.data,
                          SelectSeq(InsertionOrder(argument.data),
                                    LAMBDA key : argument.data.f[key].t # "null"))

\* a tag: a null message, which has no entry, and an object-valued target
C20_Witness ==
    /\ FormattedObject
    /\ argument.data = Tag
    /\ argument.entityType = "tag"
    /\ Len(Text.lines) = 13
    /\ Text.lines[3] = Template(<<Str("**"), Str("Type"), Str(":** "), Str("tag")>>)
    /\ Text.lines[5] = Template(<<Str("**"), Str("Date"), Str(":** "),
                                  Str("2024-05-01T10:00:00+00:00")>>)
    /\ Text.lines[7] = Fence("json")

\* the scalar field a column of a hand-specified table shows, "" for a
\* column that is computed from several fields or from a nested object
ScalarColumns(kind) ==
    CASE kind = "workspaces" -> <<"slug", "name", "uuid">>
      [] kind = "repositories" -> <<"name", "full_name", "", "language", "updated_on">>
      [] kind = "branches" -> <<"name", "">>
      [] kind = "commits" -> <<"", "message", "", "date">>
      [] kind \in {"pullrequests", "pull_requests"} -> <<"id", "title", "state", "", "">>
      [] kind = "issues" -> <<"id", "title", "state", "priority", "kind", "">>
      [] kind = "pipelines" -> <<"build_number", "", "", "duration_in_seconds", "created_on">>
      [] kind = "webhooks" -> <<"uuid", "url", "", "">>
      [] kind = "comments" -> <<"id", "", "", "created_on">>
      [] OTHER -> [j \in 1..Min(5, Len(InsertionOrder(PageItems[1]))) |->
                      InsertionOrder(PageItems[1])[j]]

(* C21: in markdown mode, for every entity-kind table (workspaces,         *)
(* repositories, branches, commits, pull requests, issues, pipelines,      *)
(* webhooks, comments, generic) and every column, a cell whose underlying  *)
(* scalar field is missing or null is rendered as '-'.                     *)
C21_MissingScalarIsDash ==
    /\ FormattedPage
    /\ PageItems # <<>>
    /\ \A i \in DOMAIN PageItems : PageItems[i].t = "object"
    /\ ~outcome.completion.threw
    =>  LET columns == ScalarColumns(argument.entityType) IN
        \A i \in DOMAIN PageItems : \A j \in DOMAIN columns :
            columns[j] # "" /\ Nullish(Get(PageItems[i], columns[j]))
                => TableLines(Text)[i + 2].cells[j] = Str("-")

\* a value that is there: a non-empty string
NonEmptyString(value) == value.t = "string" /\ Truthy(value)

\* the column of the user-like cell of a table and the user-like field it
\* shows, for the kinds that have one
UserColumn(kind) ==
    CASE kind = "commits" -> [column |-> 3, field |-> "author"]
      [] kind \in {"pullrequests", "pull_requests"} -> [column |-> 4, field |-> "author"]
      [] kind = "issues" -> [column |-> 6, field |-> "assignee"]
      [] kind = "comments" -> [column |-> 2, field |-> "user"]

\* the display name, and the username and raw string, of the user-like
\* field of an item: a commit's author is {raw, user}, every other one is
\* the account itself
DisplayNameOf(kind, item) ==
    LET person == Get(item, UserColumn(kind).field) IN
    IF kind = "commits" THEN GetOpt(GetOpt(person, "user"), "display_name")
    ELSE GetOpt(person, "display_name")

FallbackNamesOf(kind, item) ==
    LET person == Get(item, UserColumn(kind).field) IN
    IF kind = "commits"
    THEN {GetOpt(GetOpt(person, "user"), "username"), GetOpt(person, "raw")}
    ELSE {GetOpt(person, "username")}

(* C22: in every markdown table, an author/user-like cell (commit author,  *)
(* pull-request author, issue assignee, comment user) shows the user's     *)
(* display name whenever a display name is present, otherwise the username *)
(* or raw author string, and '-' only when none of them is present.        *)
C22_UserCellPrefersDisplayName ==
    /\ FormattedPage
    /\ argument.entityType \in {"commits", "pullrequests", "pull_requests", "issues", "comments"}
    /\ PageItems # <<>>
    /\ \A i \in DOMAIN PageItems : PageItems[i].t = "object"
    /\ ~outcome.completion.threw
    =>  \A i \in DOMAIN PageItems :
            LET kind == argument.entityType
                cell == TableLines(Text)[i + 2].cells[UserColumn(kind).column]
                displayName == DisplayNameOf(kind, PageItems[i])
                fallbacks == {name \in FallbackNamesOf(kind, PageItems[i]) : NonEmptyString(name)}
            IN  IF NonEmptyString(displayName) THEN cell = displayName
                ELSE IF fallbacks # {} THEN cell \in fallbacks
                ELSE cell = Str("-")

\* the column of the free-text cell of a table and the free text it shows
FreeText(kind, item) ==
    IF kind = "commits" THEN [column |-> 2, text |-> Get(item, "message")]
    ELSE [column |-> 3, text |-> GetOpt(Get(item, "content"), "raw")]

(* C23: in markdown tables, a free-text cell (commit message, comment      *)
(* body) contains only the first line of the source text (nothing after    *)
(* the first line break), truncated to at most 50 characters, so a table   *)
(* row never spans more than one line.                                     *)
C23_FreeTextFirstLine ==
    /\ FormattedPage
    /\ argument.entityType \in {"commits", "comments"}
    /\ PageItems # <<>>
    /\ \A i \in DOMAIN PageItems : PageItems[i].t = "object"
    /\ ~outcome.completion.threw
    =>  \A i \in DOMAIN PageItems :
            LET free == FreeText(argument.entityType, PageItems[i])
                cell == TableLines(Text)[i + 2].cells[free.column]
            IN  NonEmptyString(free.text) /\ "chars" \in DOMAIN free.text
                =>  /\ "chars" \in DOMAIN cell
                    /\ Len(cell.chars) <= 50
                    /\ \A k \in DOMAIN cell.chars : cell.chars[k] # "\n"
                    /\ \A k \in DOMAIN cell.chars : cell.chars[k] = free.text.chars[k]

\* the body of the request bitbucket_update_issue sent, as the upstream
\* reads it
UpdateBody == Deserialized(Value.body)

(* C24: bitbucket_update_issue maps assignee_uuid onto the update body     *)
(* sent upstream: when assignee_uuid is omitted the body has no assignee   *)
(* field; when it is null the body has assignee: null; when it is a        *)
(* non-empty string the body has assignee: {uuid: that string}.            *)
C24_AssigneeMapping ==
    Applied("bitbucket_update_issue") =>
        LET assignee_uuid == Get(argument.args, "assignee_uuid") IN
        /\ assignee_uuid = Undefined => "assignee" \notin DOMAIN UpdateBody.f
        /\ assignee_uuid = Null =>
              "assignee" \in DOMAIN UpdateBody.f /\ UpdateBody.f.assignee = Null
        /\ NonEmptyString(assignee_uuid) =>
              /\ "assignee" \in DOMAIN UpdateBody.f
              /\ UpdateBody.f.assignee.t = "object"
              /\ DOMAIN UpdateBody.f.assignee.f = {"uuid"}
              /\ UpdateBody.f.assignee.f.uuid = assignee_uuid

\* an update that unassigns the issue and changes nothing else
C24_Witness ==
    /\ Applied("bitbucket_update_issue")
    /\ DOMAIN argument.args.f = {"assignee_uuid"}
    /\ argument.args.f.assignee_uuid = Null
    /\ DOMAIN UpdateBody.f = {"assignee"}
    /\ UpdateBody.f.assignee = Null

\* the target in the body of the request bitbucket_trigger_pipeline sent,
\* as the upstream reads it
TriggerTarget == Deserialized(Value.body).f.target

\* the target carries the selector that was supplied
CarriesSelector(target, args) ==
    /\ "selector" \in DOMAIN target.f
    /\ target.f.selector.t = "object"
    /\ Get(target.f.selector, "type") = Get(args, "selector_type")
    /\ Get(target.f.selector, "pattern") = Get(args, "selector_pattern")

(* C29: bitbucket_trigger_pipeline builds the request target as follows:   *)
(* for target_type branch or tag the body target is a pipeline_ref_target  *)
(* with ref_type = target_type and ref_name = target_name, and it contains *)
(* a selector {type, pattern} if and only if selector_type was supplied;   *)
(* for target_type commit the body target is a pipeline_commit_target with *)
(* commit.hash = target_name, and a supplied selector is still included in *)
(* the request.                                                            *)
C29_TriggerTarget ==
    Applied("bitbucket_trigger_pipeline") =>
        LET args == argument.args
            supplied == Get(args, "selector_type") # Undefined
        IN  IF Get(args, "target_type") \in {Str("branch"), Str("tag")}
            THEN /\ Get(TriggerTarget, "type") = Str("pipeline_ref_target")
                 /\ Get(TriggerTarget, "ref_type") = Get(args, "target_type")
                 /\ Get(TriggerTarget, "ref_name") = Get(args, "target_name")
                 /\ supplied <=> "selector" \in DOMAIN TriggerTarget.f
                 /\ supplied => CarriesSelector(TriggerTarget, args)
            ELSE /\ Get(TriggerTarget, "type") = Str("pipeline_commit_target")
                 /\ Get(Get(TriggerTarget, "commit"), "hash") = Get(args, "target_name")
                 /\ supplied => CarriesSelector(TriggerTarget, args)

\* the response says success: true
SaysSuccess(response) ==
    LET text == response.content[1].text IN
    /\ "json" \in DOMAIN text
    /\ text.json.t = "object"
    /\ "success" \in DOMAIN text.json.f
    /\ text.json.f.success = Bool(TRUE)

(* C25: a mutating tool returns a response containing success: true only   *)
(* if its client call completed without throwing (the upstream answered    *)
(* 2xx); after any upstream non-2xx or transport failure the response      *)
(* never contains success: true.                                           *)
C25_SuccessOnlyAfterCompletedCall ==
    \A r \in Slots :
        pc[r] = "returned" /\ invocation[r].tool = MutatingTool
        /\ SaysSuccess(toolResponse[r])
        =>  /\ upstream[r].kind = "response" /\ ok(upstream[r])
            /\ ~requestOf(clientOf(server, r), MutatingTool, upstream[r]).threw

\* a deletion the upstream answered with 204 and the tool reported as done
C25_Witness ==
    \E r \in Slots :
        /\ pc[r] = "returned" /\ invocation[r].tool = MutatingTool
        /\ Answered(r, {204})
        /\ SaysSuccess(toolResponse[r])
        /\ ~IsError(toolResponse[r])

\* the client call or the formatting step of the invocation threw: the
\* authentication headers could not be built, or the try block threw on
\* what the outbound call settled to
TryBlockThrew(r) ==
    \/ upstream[r].kind = "none"
    \/ tryBlock(invocation[r],
                clientMethod(invocation[r].tool,
                             requestOf(clientOf(server, r), invocation[r].tool,
                                       upstream[r]))).threw

(* C26: no false errors: a ToolResponse carries isError = true only if the *)
(* client call or the formatting step of that invocation threw; a response *)
(* built from a successfully returned client result (formatResponse        *)
(* output, raw text, or a success envelope) never has isError set.         *)
C26_NoFalseErrors ==
    \A r \in Slots :
        pc[r] = "returned" =>
            /\ IsError(toolResponse[r]) => TryBlockThrew(r)
            /\ ~TryBlockThrew(r) => "isError" \notin DOMAIN toolResponse[r]

\* a page of workspaces answered 200 and shown as a table, without a flag
C26_Witness ==
    \E r \in Slots :
        /\ pc[r] = "returned"
        /\ invocation[r] = [tool |-> ListTool, format |-> "markdown"]
        /\ Answered(r, {200})
        /\ ~TryBlockThrew(r)
        /\ "lines" \in DOMAIN toolResponse[r].content[1].text
        /\ "isError" \notin DOMAIN toolResponse[r]

\* the answer that does not depend on the request's headers: the health
\* document, the 501 of /sse, the server-info document
StaticAnswer(path) ==
    CASE path = "/health" -> [status |-> 200, body |-> "health"]
      [] path = "/sse" -> [status |-> 501, body |-> "sse"]
      [] OTHER -> [status |-> 200, body |-> "info"]

\* the Worker received a request that is not a POST to /mcp
NotPostToMcp(r) ==
    inbound[r] # NoRequest /\ ~(inbound[r].path = "/mcp" /\ inbound[r].method = "POST")

(* C27: only a POST request to /mcp can cause an MCP server or Bitbucket   *)
(* client to be constructed or an outbound Bitbucket call to be made;      *)
(* requests to /health, to /sse, non-POST requests to /mcp and requests to *)
(* any other path are answered statically (200 status ok, 501, and the 200 *)
(* server-info document respectively) regardless of which credential       *)
(* headers are present or missing.                                         *)
C27_OnlyPostToMcpConstructs ==
    \A r \in Slots :
        NotPostToMcp(r) =>
            /\ server[r] = NoServer
            /\ ~validated[r]
            /\ outbound[r] = <<>>
            /\ pc[r] = "responded"
            /\ httpResponse[r] = StaticAnswer(inbound[r].path)

\* a GET of /mcp that carries an access token gets the server-info document
C27_Witness ==
    \E r \in Slots :
        /\ inbound[r].path = "/mcp" /\ inbound[r].method = "GET"
        /\ inbound[r].headers.accessToken = AccessTokenOf(r)
        /\ httpResponse[r] = [status |-> 200, body |-> "info"]
        /\ server[r] = NoServer

\* the credentials hold a value under the name: a non-empty string
Holds(credentials, name) ==
    credentials[name].t = "string" /\ credentials[name] # Str("")

(* C28: authentication mode selection is deterministic and exclusive: when *)
(* credentials contain an access token, every outbound call carries        *)
(* 'Authorization: Bearer <token>' even if a username and app password are *)
(* also present; Basic authentication is used only when no access token is *)
(* present and both username and app password are present; no call is ever *)
(* sent without an Authorization header.                                   *)
C28_AuthenticationMode ==
    \A r \in Slots : \A i \in DOMAIN outbound[r] :
        LET call == outbound[r][i]
            credentials == server[r].client.credentials
        IN  /\ "Authorization" \in DOMAIN call
            /\ call.Authorization.scheme \in {"Bearer", "Basic"}
            /\ Holds(credentials, "accessToken") =>
                  /\ call.Authorization.scheme = "Bearer"
                  /\ call.Authorization.value = <<credentials.accessToken.s>>
            /\ call.Authorization.scheme = "Basic" =>
                  /\ ~Holds(credentials, "accessToken")
                  /\ Holds(credentials, "username") /\ Holds(credentials, "appPassword")
                  /\ call.Authorization.value =
                        <<"base64", credentials.username.s, ":", credentials.appPassword.s>>

\* a call made with a token although username and app password are there
C28_Witness ==
    \E r \in Slots :
        /\ outbound[r] # <<>>
        /\ Holds(server[r].client.credentials, "username")
        /\ Holds(server[r].client.credentials, "appPassword")
        /\ Holds(server[r].client.credentials, "accessToken")
        /\ outbound[r][1].Authorization.scheme = "Bearer"

\* what bitbucket_test_connection reported: the result of testConnection
\* as the response text denotes it
ConnectionResult(r) == toolResponse[r].content[1].text.json

(* C30: client.testConnection never rejects: it resolves to                *)
(* {connected: true, ...} when the /user request succeeds and to           *)
(* {connected: false, message: <error message>} for every failure of that  *)
(* request (authentication, rate-limit, upstream, transport), so the       *)
(* isError branch of the bitbucket_test_connection handler is unreachable  *)
(* for upstream failures.                                                  *)
C30_TestConnectionNeverRejects ==
    \A r \in Slots :
        pc[r] = "returned" /\ invocation[r].tool = TestTool =>
            /\ ~IsError(toolResponse[r])
            /\ "json" \in DOMAIN toolResponse[r].content[1].text
            /\ DOMAIN ConnectionResult(r).f = {"connected", "message"}
            /\ (upstream[r].kind = "none" =>
                    ConnectionResult(r).f.connected = Bool(FALSE))
            /\ (upstream[r].kind # "none" =>
                    LET requested == request(clientOf(server, r), upstream[r]) IN
                    /\ UpstreamFailed(r) => requested.threw
                    /\ ~requested.threw => ConnectionResult(r).f.connected = Bool(TRUE)
                    /\ requested.threw =>
                          /\ ConnectionResult(r).f.connected = Bool(FALSE)
                          /\ IF requested.error.message.t = "string"
                             THEN ConnectionResult(r).f.message = requested.error.message
                             ELSE ConnectionResult(r).f.message.t
                                      = requested.error.message.t)

\* the upstream answered 401 and the tool reported it without an error flag
C30_Witness ==
    \E r \in Slots :
        /\ pc[r] = "returned" /\ invocation[r].tool = TestTool
        /\ Answered(r, {401})
        /\ ConnectionResult(r).f.connected = Bool(FALSE)
        /\ ConnectionResult(r).f.message = AuthFailedMessage
        /\ ~IsError(toolResponse[r])
====
